---- MODULE Spec2Model ----
(***************************************************************************)
(* Model of the multi-object tracker of Cam_detect                         *)
(* (src/src/core/tracker.py, class MultiObjectTracker) and of the          *)
(* detection filters that run before it (src/src/core/roi_filter.py,       *)
(* classes ROIFilter, MovementCoherenceFilter and ContextualValidator).    *)
(*                                                                         *)
(* Coordinates are integers: the detector's centers are floats, but every  *)
(* input of the model lies on an integer grid, where the float arithmetic  *)
(* of the tracker (differences, squares, comparisons) is exact.            *)
(* math.sqrt is strictly increasing on the squared distances of the grid,  *)
(* so a distance is represented by its square and compared by squares.     *)
(* The dict tracked_objects is a sequence of track records in insertion    *)
(* order (Python dicts keep insertion order; deletion keeps the order of   *)
(* the remaining keys).                                                    *)
(* A track's direction, math.degrees(math.atan2(vy, vx)), is kept as the   *)
(* pair <<vy, vx>> it is computed from; the initial 0.0 is <<0, 1>>.       *)
(* TrackedObject.max_frames_lost is never read by the tracker and is left  *)
(* out of the track records. reset() begins a new session and is not part  *)
(* of the runs studied here.                                               *)
(***************************************************************************)
EXTENDS Integers, Sequences, FiniteSets, TLC

VARIABLES
    tracked_objects,          \* self.tracked_objects, in dict order
    next_track_id,            \* self.next_track_id
    frame_count,              \* self.frame_count
    total_tracks_created,     \* self.total_tracks_created
    total_tracks_completed,   \* self.total_tracks_completed
    crossing_counts,          \* self.crossing_counts
    detection_zone,           \* self.detection_zone (<<>> is None, else <<zone>>)
    counting_lines,           \* self.counting_lines
    last,                     \* observation of the last update call
    hist,                     \* observation of every track ever created
    inclusion_zones,          \* ROIFilter.inclusion_zones
    exclusion_zones,          \* ROIFilter.exclusion_zones
    detection_history,        \* MovementCoherenceFilter.detection_history
    call                      \* the last call other than update, and what it gave

vars == <<tracked_objects, next_track_id, frame_count, total_tracks_created,
          total_tracks_completed, crossing_counts, detection_zone,
          counting_lines, last, hist, inclusion_zones, exclusion_zones,
          detection_history, call>>

\* the state of the tracker and the observation of its updates
tracker_vars == <<tracked_objects, next_track_id, frame_count,
                  total_tracks_created, total_tracks_completed,
                  crossing_counts, detection_zone, counting_lines, last, hist>>

\* the state of the filters and the observation of their calls
filter_vars == <<inclusion_zones, exclusion_zones, detection_history, call>>

-----------------------------------------------------------------------------
(* Program constants                                                       *)

max_distance == 100
min_track_length == 5
max_frames_lost == 10
HistoryMaxLen == 30
CleanupAge == 100

-----------------------------------------------------------------------------
(* Bounds of the model                                                     *)

MaxDets == 2          \* detections in one frame (Spec)
MaxTracks == 2        \* tracks created in one run (Spec)
MaxFrame == 2         \* last frame number (Spec)
MaxCrossDets == 1     \* detections in one frame (SpecCross)
MaxCrossTracks == 1   \* tracks created in one run (SpecCross)
MaxCrossFrame == 4    \* last frame number (SpecCross)
MaxLifeTracks == 2    \* tracks created in one run (SpecLife)
MaxLifeFrame == 120   \* last frame number (SpecLife)
MaxCalls == 15        \* update calls in one run (SpecLife)
MaxBusy == 5          \* updates with a detection in one run (SpecLife)
MaxBoundaryFrame == 2 \* largest frame number (SpecBoundary)
MaxBoundaryCalls == 3 \* update calls in one run (SpecBoundary)
MaxFreeMoves == 2     \* first updates in which the object may move (SpecHistory)
MaxHistoryFrame == 32 \* last frame number (SpecHistory)
MaxDirDets == 1       \* detections in one frame (SpecDirection)
MaxDirTracks == 1     \* tracks created in one run (SpecDirection)
MaxDirFrame == 3      \* last frame number (SpecDirection)
MaxZones == 2         \* zones added to the filter (SpecRoi)
MaxRoiDets == 2       \* detections in one filter call (SpecRoi)
GridMax == 2          \* largest coordinate of a polygon vertex (SpecPolygon)
MaxMoveCalls == 11    \* update_detection_movement calls in one run (SpecMovement)
MaxSide == 6          \* largest side of a box, in tens of pixels (SpecValidate)
MaxCumCalls == 14     \* update calls in one run (SpecCumulative)
MaxCumBusy == 4       \* updates with a detection in one run (SpecCumulative)
MaxCumTracks == 2     \* tracks created in one run (SpecCumulative)
MaxGraceFrame == 112  \* last frame number (SpecGrace)
MaxGraceCalls == 12   \* update calls in one run (SpecGrace)
MaxGraceBusy == 2     \* updates with a detection in one run (SpecGrace)
MaxGraceTracks == 2   \* tracks created in one run (SpecGrace)
SegMax == 2           \* largest coordinate of a segment end (SpecSegments)
MaxStepCalls == 11    \* calls per identifier in one run (SpecMovementSteps)
MaxStatsFrame == 2    \* last frame number (SpecStats)
MaxEdits == 1         \* caller's edits of one returned mapping (SpecStats)

-----------------------------------------------------------------------------
(* Inputs                                                                  *)

\* COCO class ids the detector lets through (2 = car, 0 = person)
Classes == {0, 2}

\* bounding boxes [x1, y1, x2, y2]; their centers are (90,90), (110,90),
\* (110,110) and (90,190)
Boxes == { <<80, 80, 100, 100>>, <<100, 80, 120, 100>>,
           <<100, 100, 120, 120>>, <<80, 180, 100, 200>> }

\* confidences, in hundredths
Confidences == {80}

\* frame-number increments between two update calls
FrameGaps == {1, 91, 100}

\* config['detection_zone']: a 200 x 200 detection zone
ZoneConfig == [enabled |-> TRUE, x1 |-> 0, y1 |-> 0, x2 |-> 200, y2 |-> 200]

_get_class_name(class_id) ==
    CASE class_id = 0 -> "person"
      [] class_id = 1 -> "bicycle"
      [] class_id = 2 -> "car"
      [] class_id = 3 -> "motorcycle"
      [] class_id = 5 -> "bus"
      [] class_id = 7 -> "truck"
      [] OTHER -> "class_other"

\* one detection record as detect_objects builds it
MakeDetection(coords, conf, class_id) ==
    [ bbox |-> coords,
      confidence |-> conf,
      class_id |-> class_id,
      class_name |-> _get_class_name(class_id),
      center |-> << (coords[1] + coords[3]) \div 2,
                    (coords[2] + coords[4]) \div 2 >> ]

AllDetections ==
    { MakeDetection(b, c, k) : b \in Boxes, c \in Confidences, k \in Classes }

\* the detections of Spec: a person on (90,90), (110,90) or (90,190), a car
\* on (90,90)
DetectionValues ==
    { d \in AllDetections :
        \/ d.class_id = 0 /\ d.center /= <<110, 110>>
        \/ d.center = <<90, 90>> }

RECURSIVE SeqsUpTo(_, _)
SeqsUpTo(S, n) ==
    IF n = 0 THEN { <<>> }
    ELSE LET shorter == SeqsUpTo(S, n - 1)
         IN  shorter \cup { Append(s, x) : s \in { t \in shorter : Len(t) = n - 1 }, x \in S }

-----------------------------------------------------------------------------
(* Sequence helpers (Python list operations)                               *)

\* a removal of every element equal to x
ListRemoveAll(s, x) == SelectSeq(s, LAMBDA y : y /= x)

\* list.remove(x): drops the first element equal to x
RECURSIVE ListRemove(_, _)
ListRemove(s, x) ==
    IF s = <<>> THEN <<>>
    ELSE IF Head(s) = x THEN Tail(s)
    ELSE <<Head(s)>> \o ListRemove(Tail(s), x)

ListContains(s, x) == \E i \in 1..Len(s) : s[i] = x

\* a list that keeps every entry
ListAppend(d, x) ==
    Append(d, x)

\* deque(maxlen=30).append(x)
DequeAppend(d, x) ==
    IF Len(d) >= HistoryMaxLen THEN Append(Tail(d), x) ELSE Append(d, x)

-----------------------------------------------------------------------------
(* The track table                                                         *)

TrackIds(objs) == { objs[i].track_id : i \in 1..Len(objs) }

\* position of key tid in the dict (0 when absent)
IndexOf(objs, tid) ==
    IF \E i \in 1..Len(objs) : objs[i].track_id = tid
    THEN CHOOSE i \in 1..Len(objs) : objs[i].track_id = tid
    ELSE 0

GetTrack(objs, tid) == objs[IndexOf(objs, tid)]

\* tracked_objects[tid] = track: in place for a present key, at the end otherwise
PutTrack(objs, tid, track) ==
    IF IndexOf(objs, tid) > 0
    THEN [objs EXCEPT ![IndexOf(objs, tid)] = track]
    ELSE Append(objs, track)

\* a test that takes every track of the table
IsInTable(track) == TRUE

\* track.is_active
IsActive(track) == track.is_active

-----------------------------------------------------------------------------
(* _calculate_distance and the cost matrix                                 *)

\* the square of the Euclidean distance of two centers
_calculate_distance(center1, center2) ==
    (center1[1] - center2[1]) * (center1[1] - center2[1])
        + (center1[2] - center2[2]) * (center1[2] - center2[2])

\* a gate that also wants the object to have moved
MovedWithinMaxDistance(distance) ==
    0 < distance /\ distance < max_distance * max_distance

\* distance < self.max_distance, on the squares
WithinMaxDistance(distance) == distance < max_distance * max_distance

\* float('inf')
Inf == -1

\* a < b on matrix entries
CostLess(a, b) == a /= Inf /\ (b = Inf \/ a < b)

\* a cost matrix without the class filter
SameClassAny(track, detection) == TRUE

\* same class: the class filter of the cost matrix
SameClass(track, detection) == track.class_id = detection.class_id

\* cost_matrix[i, j] for the active tracks track_ids and the detections
CostMatrix(objs, track_ids, detections) ==
    [ i \in 1..Len(track_ids), j \in 1..Len(detections) |->
        LET track == GetTrack(objs, track_ids[i])
            distance == _calculate_distance(track.center, detections[j].center)
        IN  IF SameClass(track, detections[j]) /\ WithinMaxDistance(distance)
            THEN distance
            ELSE Inf ]

\* an argmin that returns the last minimal cell
ArgMinLast(cost, nrows, ncols) ==
    LET cells == (1..nrows) \X (1..ncols)
        After(a, b) == a[1] > b[1] \/ (a[1] = b[1] /\ a[2] > b[2])
    IN  CHOOSE c \in cells :
            \A o \in cells :
                o /= c =>
                    \/ CostLess(cost[c], cost[o])
                    \/ (cost[c] = cost[o] /\ After(c, o))

\* np.argmin over the flattened (row-major) matrix: the first minimal cell
ArgMin(cost, nrows, ncols) ==
    LET cells == (1..nrows) \X (1..ncols)
        Before(a, b) == a[1] < b[1] \/ (a[1] = b[1] /\ a[2] < b[2])
    IN  CHOOSE c \in cells :
            \A o \in cells :
                o /= c =>
                    \/ CostLess(cost[c], cost[o])
                    \/ (cost[c] = cost[o] /\ Before(c, o))

\* associations[track_id] = detection (det_idx: the detection's list position)
DictSet(associations, track_id, detection, det_idx) ==
    LET entry == [track_id |-> track_id, detection |-> detection, det_idx |-> det_idx]
    IN  IF \E k \in 1..Len(associations) : associations[k].track_id = track_id
        THEN [ k \in 1..Len(associations) |->
                 IF associations[k].track_id = track_id THEN entry ELSE associations[k] ]
        ELSE Append(associations, entry)

\* a loop that forgets to take the detection's column out of the matrix
InvalidateRowOnly(cost, track_idx, det_idx) ==
    [ c \in DOMAIN cost |-> IF c[1] = track_idx THEN Inf ELSE cost[c] ]

\* cost_matrix[track_idx, :] = inf; cost_matrix[:, det_idx] = inf
Invalidate(cost, track_idx, det_idx) ==
    [ c \in DOMAIN cost |->
        IF c[1] = track_idx \/ c[2] = det_idx THEN Inf ELSE cost[c] ]

\* the greedy loop of _associate_detections; acc holds the loop's variables
RECURSIVE GreedyLoop(_, _, _, _)
GreedyLoop(rounds, track_ids, detections, acc) ==
    IF rounds = 0 \/ Len(track_ids) * Len(detections) = 0
    THEN acc
    ELSE
      LET min_cost_idx == ArgMin(acc.cost_matrix, Len(track_ids), Len(detections))
      IN  IF acc.cost_matrix[min_cost_idx] = Inf
          THEN acc
          ELSE
            LET track_idx == min_cost_idx[1]
                det_idx == min_cost_idx[2]
                track_id == track_ids[track_idx]
                detection == detections[det_idx]
                next == [ associations |->
                              DictSet(acc.associations, track_id, detection, det_idx),
                          cost_matrix |->
                              Invalidate(acc.cost_matrix, track_idx, det_idx),
                          unmatched_detections |->
                              IF ListContains(acc.unmatched_detections, detection)
                              THEN ListRemove(acc.unmatched_detections, detection)
                              ELSE acc.unmatched_detections,
                          unmatched_tracks |->
                              IF ListContains(acc.unmatched_tracks, track_id)
                              THEN ListRemove(acc.unmatched_tracks, track_id)
                              ELSE acc.unmatched_tracks ]
            IN  GreedyLoop(rounds - 1, track_ids, detections, next)

\* a loop that runs one round short
OneRoundShort(a, b) == IF a < b THEN a - 1 ELSE b - 1

Min(a, b) == IF a < b THEN a ELSE b

NoAssociation(detections) ==
    [ associations |-> <<>>, unmatched_detections |-> detections, unmatched_tracks |-> <<>> ]

\* _associate_detections: (associations, unmatched_detections, unmatched_tracks);
\* associations is the dict in insertion order, det_idx the list position of
\* the detection each entry was committed with
_associate_detections(objs, detections) ==
    IF Len(objs) = 0 THEN NoAssociation(detections)
    ELSE
      LET active == SelectSeq(objs, IsActive)
          track_ids == [ i \in 1..Len(active) |-> active[i].track_id ]
      IN  IF Len(active) = 0 THEN NoAssociation(detections)
          ELSE
            LET done == GreedyLoop(Min(Len(track_ids), Len(detections)),
                                   track_ids, detections,
                                   [ associations |-> <<>>,
                                     cost_matrix |-> CostMatrix(objs, track_ids, detections),
                                     unmatched_detections |-> detections,
                                     unmatched_tracks |-> track_ids ])
            IN  [ associations |-> done.associations,
                  unmatched_detections |-> done.unmatched_detections,
                  unmatched_tracks |-> done.unmatched_tracks ]

-----------------------------------------------------------------------------
(* Line crossings                                                          *)

\* ccw of _line_intersection
ccw(A, B, C) == (C[2] - A[2]) * (B[1] - A[1]) > (B[2] - A[2]) * (C[1] - A[1])

\* a test of the side of the line only
CrossesLineOnly(p1, p2, p3, p4) ==
    ccw(p1, p3, p4) /= ccw(p2, p3, p4)

_line_intersection(p1, p2, p3, p4) ==
    /\ ccw(p1, p3, p4) /= ccw(p2, p3, p4)
    /\ ccw(p1, p2, p3) /= ccw(p1, p2, p4)

\* a direction taken from the sign of the other end of the move
ReversedDirection(old_pos, new_pos, line_info) ==
    IF line_info.direction = "vertical"
    THEN IF old_pos[2] < new_pos[2] THEN "north" ELSE "south"
    ELSE IF old_pos[1] > new_pos[1] THEN "east" ELSE "west"

\* _get_crossing_direction
_get_crossing_direction(old_pos, new_pos, line_info) ==
    IF line_info.direction = "vertical"
    THEN IF new_pos[2] < old_pos[2] THEN "north" ELSE "south"
    ELSE IF new_pos[1] > old_pos[1] THEN "east" ELSE "west"

\* a count that does not look at has_crossed_line
MayCountEveryLine(direction, track) == direction /= "None"

\* the test guarding the count of one crossing
MayCount(direction, track) == direction /= "None" /\ ~track.has_crossed_line

\* _check_line_crossings over lines[k..]; acc is [track, crossing_counts]
RECURSIVE CheckLines(_, _, _, _)
CheckLines(lines, k, old_center, acc) ==
    IF k > Len(lines) THEN acc
    ELSE
      LET line_info == lines[k]
          new_center == acc.track.center
          hit == _line_intersection(old_center, new_center,
                                    line_info.line[1], line_info.line[2])
          direction == _get_crossing_direction(old_center, new_center, line_info)
      IN  IF hit /\ MayCount(direction, acc.track)
          THEN CheckLines(lines, k + 1, old_center,
                 [ track |-> [acc.track EXCEPT !.has_crossed_line = TRUE],
                   crossing_counts |->
                       [acc.crossing_counts EXCEPT ![direction] = @ + 1] ])
          ELSE CheckLines(lines, k + 1, old_center, acc)

_check_line_crossings(track, old_center, counts) ==
    CheckLines(counting_lines, 1, old_center,
               [track |-> track, crossing_counts |-> counts])

-----------------------------------------------------------------------------
(* Entry and exit points                                                   *)

Abs(x) == IF x < 0 THEN -x ELSE x

\* abs(v) > 0.1
ExceedsDeadZone(v) == 10 * Abs(v) > 1

_get_entry_point(center) ==
    LET width  == IF detection_zone = <<>> THEN 1920
                  ELSE detection_zone[1].x2 - detection_zone[1].x1
        height == IF detection_zone = <<>> THEN 1080
                  ELSE detection_zone[1].y2 - detection_zone[1].y1
        x == center[1]
        y == center[2]
        \* the dict distances, in insertion order
        distances == << [key |-> "north", value |-> y],
                        [key |-> "south", value |-> height - y],
                        [key |-> "west",  value |-> x],
                        [key |-> "east",  value |-> width - x] >>
        \* min(distances, key=distances.get): the first minimal key
        first == CHOOSE i \in 1..4 :
                     /\ \A j \in 1..4 : distances[i].value <= distances[j].value
                     /\ \A j \in 1..(i - 1) : distances[j].value > distances[i].value
    IN  distances[first].key

_get_exit_point(center) == _get_entry_point(center)

-----------------------------------------------------------------------------
(* The steps of update; st is the tracker's mutable state                  *)

\* _update_track, basic properties: the box and the confidence are overwritten
\* from the detection; the class fields are not assigned
OverwriteWithClass(track, detection) ==
    [ track EXCEPT
        !.bbox = detection.bbox,
        !.confidence = detection.confidence,
        !.class_id = detection.class_id,
        !.class_name = detection.class_name ]

Overwrite(track, detection) ==
    [ track EXCEPT
        !.bbox = detection.bbox,
        !.confidence = detection.confidence ]

\* _update_track
_update_track(st, track_id, detection, frame_number) ==
    LET track == GetTrack(st.tracked_objects, track_id)
        old_center == track.center
        center == detection.center
        positions == DequeAppend(track.positions, center)
        velocity == IF Len(positions) >= 2
                    THEN << center[1] - old_center[1], center[2] - old_center[2] >>
                    ELSE track.velocity
        direction == IF Len(positions) >= 2
                        /\ (ExceedsDeadZone(velocity[1]) \/ ExceedsDeadZone(velocity[2]))
                     THEN << velocity[2], velocity[1] >>
                     ELSE track.direction
        moved == [ Overwrite(track, detection) EXCEPT
                     !.center = center,
                     !.positions = positions,
                     !.confidences = DequeAppend(track.confidences, detection.confidence),
                     !.frame_history = DequeAppend(track.frame_history, frame_number),
                     !.velocity = velocity,
                     !.direction = direction,
                     !.last_seen_frame = frame_number,
                     !.frames_tracked = track.frames_tracked + 1,
                     !.frames_lost = 0 ]
        checked == _check_line_crossings(moved, old_center, st.crossing_counts)
    IN  [ st EXCEPT
            !.tracked_objects = PutTrack(st.tracked_objects, track_id, checked.track),
            !.crossing_counts = checked.crossing_counts ]

\* a creation that forgets to advance next_track_id
NextIdStuck(track_id) == track_id

\* the identifier that follows the one just handed out
NextId(track_id) == track_id + 1

\* _create_new_track
_create_new_track(st, detection, frame_number) ==
    LET track_id == st.next_track_id
        new_track ==
            [ track_id |-> track_id,
              class_name |-> detection.class_name,
              class_id |-> detection.class_id,
              confidence |-> detection.confidence,
              bbox |-> detection.bbox,
              center |-> detection.center,
              positions |-> << detection.center >>,
              confidences |-> << detection.confidence >>,
              frame_history |-> << frame_number >>,
              first_seen_frame |-> frame_number,
              last_seen_frame |-> frame_number,
              frames_tracked |-> 1,
              frames_lost |-> 0,
              velocity |-> << 0, 0 >>,
              direction |-> << 0, 1 >>,
              is_active |-> TRUE,
              has_crossed_line |-> FALSE,
              entry_point |-> _get_entry_point(detection.center),
              exit_point |-> "None" ]
    IN  [ st EXCEPT
            !.next_track_id = NextId(track_id),
            !.tracked_objects = PutTrack(st.tracked_objects, track_id, new_track),
            !.total_tracks_created = st.total_tracks_created + 1 ]

\* a lost track that ages by two
AgeTrackTwice(track) == [track EXCEPT !.frames_lost = track.frames_lost + 2]

\* track.frames_lost += 1
AgeTrack(track) == [track EXCEPT !.frames_lost = track.frames_lost + 1]

\* > in place of >=
LostTooLongStrict(track) == track.frames_lost > max_frames_lost

\* a limit that is one frame short
LostTooLongEarly(track) == track.frames_lost >= max_frames_lost - 1

\* track.frames_lost >= self.max_frames_lost
LostTooLong(track) == track.frames_lost >= max_frames_lost

\* > in place of >=
LongEnoughStrict(track) == track.frames_tracked > min_track_length

\* track.frames_tracked >= self.min_track_length
LongEnough(track) == track.frames_tracked >= min_track_length

\* _handle_lost_track
_handle_lost_track(st, track_id, frame_number) ==
    IF IndexOf(st.tracked_objects, track_id) = 0 THEN st
    ELSE
      LET track == GetTrack(st.tracked_objects, track_id)
          aged == AgeTrack(track)
      IN  IF LostTooLong(aged)
          THEN [ st EXCEPT
                   !.tracked_objects =
                       PutTrack(st.tracked_objects, track_id,
                                [aged EXCEPT !.is_active = FALSE,
                                             !.exit_point = _get_exit_point(aged.center)]),
                   !.total_tracks_completed =
                       IF LongEnough(aged) THEN st.total_tracks_completed + 1
                       ELSE st.total_tracks_completed ]
          ELSE [ st EXCEPT
                   !.tracked_objects = PutTrack(st.tracked_objects, track_id, aged) ]

\* a cleanup that does not look at is_active
ExpiredAnyTrack(track, now) == (now - track.last_seen_frame) > CleanupAge

\* >= in place of >
ExpiredAtGrace(track, now) == ~track.is_active /\ (now - track.last_seen_frame) >= CleanupAge

\* the removal test of _cleanup_inactive_tracks
Expired(track, now) == ~track.is_active /\ (now - track.last_seen_frame) > CleanupAge

\* a cleanup that restarts the crossing counters when it removes a track
CleanupRestartsCounts(st) ==
    LET kept == SelectSeq(st.tracked_objects,
                          LAMBDA track : ~Expired(track, st.frame_count))
    IN  [ st EXCEPT !.tracked_objects = kept,
                    !.crossing_counts =
                        IF Len(kept) < Len(st.tracked_objects)
                        THEN [ d \in DOMAIN st.crossing_counts |-> 0 ]
                        ELSE @ ]

\* _cleanup_inactive_tracks
_cleanup_inactive_tracks(st) ==
    [ st EXCEPT !.tracked_objects =
        SelectSeq(st.tracked_objects, LAMBDA track : ~Expired(track, st.frame_count)) ]

RECURSIVE UpdateAll(_, _, _, _)
UpdateAll(st, associations, k, frame_number) ==
    IF k > Len(associations) THEN st
    ELSE UpdateAll(_update_track(st, associations[k].track_id,
                                 associations[k].detection, frame_number),
                   associations, k + 1, frame_number)

RECURSIVE CreateAll(_, _, _, _)
CreateAll(st, detections, k, frame_number) ==
    IF k > Len(detections) THEN st
    ELSE CreateAll(_create_new_track(st, detections[k], frame_number),
                   detections, k + 1, frame_number)

RECURSIVE HandleAll(_, _, _, _)
HandleAll(st, track_ids, k, frame_number) ==
    IF k > Len(track_ids) THEN st
    ELSE HandleAll(_handle_lost_track(st, track_ids[k], frame_number),
                   track_ids, k + 1, frame_number)

\* the tracker's mutable fields as one record
Tracker ==
    [ tracked_objects |-> tracked_objects,
      next_track_id |-> next_track_id,
      frame_count |-> frame_count,
      total_tracks_created |-> total_tracks_created,
      total_tracks_completed |-> total_tracks_completed,
      crossing_counts |-> crossing_counts ]

\* update, return value: every track of the table, or only the active ones
AllTracks(objs) ==
    objs

ActiveTracks(objs) ==
    SelectSeq(objs, IsActive)

\* update(detections, frame_number): the state after each of its steps
UpdateSteps(detections, frame_number) ==
    LET st0 == [Tracker EXCEPT !.frame_count = frame_number]
        assoc == _associate_detections(st0.tracked_objects, detections)
        st1 == UpdateAll(st0, assoc.associations, 1, frame_number)
        st2 == CreateAll(st1, assoc.unmatched_detections, 1, frame_number)
        st3 == HandleAll(st2, assoc.unmatched_tracks, 1, frame_number)
        st4 == _cleanup_inactive_tracks(st3)
    IN  [ assoc |-> assoc, matched |-> st1, created |-> st2, aged |-> st3,
          final |-> st4,
          active_tracks |-> ActiveTracks(st4.tracked_objects) ]

-----------------------------------------------------------------------------
(* Observation of the run: what each update did to each track              *)

Total(counts) == counts["north"] + counts["south"] + counts["east"] + counts["west"]

IsAssociated(associations, tid) ==
    \E k \in 1..Len(associations) : associations[k].track_id = tid

\* position of tid in a list of identifiers (0 when absent)
PosIn(ids, tid) ==
    IF \E k \in 1..Len(ids) : ids[k] = tid
    THEN CHOOSE k \in 1..Len(ids) : ids[k] = tid
    ELSE 0

AssocPos(associations, tid) ==
    PosIn([ k \in 1..Len(associations) |-> associations[k].track_id ], tid)

\* the identifiers handed out by the creations of one update, in order
CreatedIds(st1, detections, frame_number) ==
    [ k \in 1..Len(detections) |->
        CreateAll(st1, SubSeq(detections, 1, k - 1), 1, frame_number).next_track_id ]

\* the counter increments made while the k-th association was applied
CountedBy(st0, associations, k, frame_number) ==
    Total(UpdateAll(st0, SubSeq(associations, 1, k), 1, frame_number).crossing_counts)
      - Total(UpdateAll(st0, SubSeq(associations, 1, k - 1), 1, frame_number).crossing_counts)

\* the completed-counter increments made while the k-th lost track was handled
CompletedBy(st2, track_ids, k, frame_number) ==
    HandleAll(st2, SubSeq(track_ids, 1, k), 1, frame_number).total_tracks_completed
      - HandleAll(st2, SubSeq(track_ids, 1, k - 1), 1, frame_number).total_tracks_completed

NewEntry(tid, frame_number) ==
    [ track_id |-> tid, created_frame |-> frame_number, in_table |-> TRUE,
      unmatched_run |-> 0, deactivations |-> 0, run_at_deactivation |-> 0,
      inactive_frame |-> 0, purged_frame |-> 0, increments |-> 0,
      flag_sets |-> 0, flag_resets |-> 0, completions |-> 0,
      tracked_at_deactivation |-> 0, last_seen |-> frame_number ]

\* the entry of a track that was in the table when the update began
ObserveEntry(e, r, detections, frame_number) ==
    IF ~e.in_table \/ IndexOf(tracked_objects, e.track_id) = 0 THEN e
    ELSE
      LET tid == e.track_id
          before == GetTrack(tracked_objects, tid)
          after == GetTrack(r.aged.tracked_objects, tid)
          st0 == [Tracker EXCEPT !.frame_count = frame_number]
          apos == AssocPos(r.assoc.associations, tid)
          lpos == PosIn(r.assoc.unmatched_tracks, tid)
          run == IF apos > 0 THEN 0 ELSE e.unmatched_run + 1
          deactivated == before.is_active /\ ~after.is_active
          gone == IndexOf(r.final.tracked_objects, tid) = 0
      IN  [ e EXCEPT
              !.unmatched_run = run,
              !.deactivations = IF deactivated THEN @ + 1 ELSE @,
              !.run_at_deactivation = IF deactivated THEN run ELSE @,
              !.tracked_at_deactivation = IF deactivated THEN after.frames_tracked ELSE @,
              !.inactive_frame = IF deactivated THEN frame_number ELSE @,
              !.increments = IF apos > 0
                             THEN @ + CountedBy(st0, r.assoc.associations, apos, frame_number)
                             ELSE @,
              !.completions = IF lpos > 0
                              THEN @ + CompletedBy(r.created, r.assoc.unmatched_tracks,
                                                   lpos, frame_number)
                              ELSE @,
              !.flag_sets = IF ~before.has_crossed_line /\ after.has_crossed_line
                            THEN @ + 1 ELSE @,
              !.flag_resets = IF before.has_crossed_line /\ ~after.has_crossed_line
                              THEN @ + 1 ELSE @,
              !.last_seen = after.last_seen_frame,
              !.in_table = ~gone,
              !.purged_frame = IF gone THEN frame_number ELSE @ ]

Observe(r, detections, frame_number) ==
    LET ids == CreatedIds(r.matched, r.assoc.unmatched_detections, frame_number)
    IN  [ k \in 1..Len(hist) |-> ObserveEntry(hist[k], r, detections, frame_number) ]
          \o [ k \in 1..Len(ids) |-> NewEntry(ids[k], frame_number) ]

-----------------------------------------------------------------------------
(* Construction and the update action                                      *)

\* _setup_tracking_zones
_setup_tracking_zones(zone_config) ==
    LET width == zone_config.x2 - zone_config.x1
        height == zone_config.y2 - zone_config.y1
        center_x == width \div 2
        center_y == height \div 2
    IN  [ detection_zone |->
              IF zone_config.enabled
              THEN << [ x1 |-> zone_config.x1, y1 |-> zone_config.y1,
                        x2 |-> zone_config.x2, y2 |-> zone_config.y2 ] >>
              ELSE <<>>,
          counting_lines |->
              << [ name |-> "horizontal",
                   line |-> << <<0, center_y>>, <<width, center_y>> >>,
                   direction |-> "vertical" ],
                 [ name |-> "vertical",
                   line |-> << <<center_x, 0>>, <<center_x, height>> >>,
                   direction |-> "horizontal" ] >> ]

\* __init__
Init ==
    /\ tracked_objects = <<>>
    /\ next_track_id = 1
    /\ frame_count = 0
    /\ total_tracks_created = 0
    /\ total_tracks_completed = 0
    /\ crossing_counts = [ d \in {"north", "south", "east", "west"} |-> 0 ]
    /\ detection_zone = _setup_tracking_zones(ZoneConfig).detection_zone
    /\ counting_lines = _setup_tracking_zones(ZoneConfig).counting_lines
    /\ last = [ called |-> FALSE, detections |-> <<>>, frame_number |-> 0,
                pre |-> <<>>, associations |-> <<>>, unmatched_detections |-> <<>>,
                unmatched_tracks |-> <<>>, aged |-> <<>>, created_ids |-> <<>>,
                returned |-> <<>>, counts_pre |-> crossing_counts,
                completed_pre |-> 0, busy |-> 0, calls |-> 0,
                frame_pre |-> 0, created_pre |-> 0, ordered |-> TRUE ]
    /\ hist = <<>>
    /\ inclusion_zones = <<>>
    /\ exclusion_zones = <<>>
    /\ detection_history = <<>>
    /\ call = [ op |-> "none" ]

\* update(detections, frame_number)
Update(detections, frame_number) ==
    \E r \in { UpdateSteps(detections, frame_number) } :
        /\ tracked_objects' = r.final.tracked_objects
        /\ next_track_id' = r.final.next_track_id
        /\ frame_count' = r.final.frame_count
        /\ total_tracks_created' = r.final.total_tracks_created
        /\ total_tracks_completed' = r.final.total_tracks_completed
        /\ crossing_counts' = r.final.crossing_counts
        /\ UNCHANGED <<detection_zone, counting_lines>>
        /\ last' = [ called |-> TRUE, detections |-> detections,
                     frame_number |-> frame_number,
                     pre |-> tracked_objects,
                     associations |-> r.assoc.associations,
                     unmatched_detections |-> r.assoc.unmatched_detections,
                     unmatched_tracks |-> r.assoc.unmatched_tracks,
                     aged |-> r.aged.tracked_objects,
                     created_ids |-> CreatedIds(r.matched, r.assoc.unmatched_detections,
                                                frame_number),
                     returned |-> r.active_tracks,
                     counts_pre |-> crossing_counts,
                     completed_pre |-> total_tracks_completed,
                     busy |-> IF detections = <<>> THEN last.busy ELSE last.busy + 1,
                     calls |-> last.calls + 1,
                     frame_pre |-> frame_count,
                     created_pre |-> total_tracks_created,
                     ordered |-> last.ordered /\ frame_number > frame_count ]
        /\ hist' = Observe(r, detections, frame_number)
        /\ UNCHANGED filter_vars

\* the tracks created so far and by this call stay within n
WithinTracks(detections, n) ==
    total_tracks_created
      + Len(_associate_detections(tracked_objects, detections).unmatched_detections) <= n

\* any frame of up to MaxDets detections, frame numbers strictly increasing
Next ==
    \E detections \in SeqsUpTo(DetectionValues, MaxDets), gap \in FrameGaps :
        /\ frame_count + gap <= MaxFrame
        /\ WithinTracks(detections, MaxTracks)
        /\ Update(detections, frame_count + gap)

Spec == Init /\ [][Next]_vars

\* one stationary object that comes and goes, over a long run
LifeDetections == { d \in AllDetections : d.center = <<90, 90>> /\ d.class_id = 2 }

NextLife ==
    \E detections \in SeqsUpTo(LifeDetections, 1), gap \in FrameGaps :
        /\ frame_count + gap <= MaxLifeFrame
        /\ last.calls < MaxCalls
        /\ detections /= <<>> => last.busy < MaxBusy
        /\ WithinTracks(detections, MaxLifeTracks)
        /\ Update(detections, frame_count + gap)

SpecLife == Init /\ [][NextLife]_vars

\* one person moving between the centers around the two counting lines
CrossDetections == { d \in AllDetections : d.class_id = 0 /\ d.center /= <<90, 190>> }

NextCross ==
    \E detections \in SeqsUpTo(CrossDetections, MaxCrossDets), gap \in FrameGaps :
        /\ frame_count + gap <= MaxCrossFrame
        /\ WithinTracks(detections, MaxCrossTracks)
        /\ Update(detections, frame_count + gap)

SpecCross == Init /\ [][NextCross]_vars

\* what a caller other than the detector may pass for one car at (90, 90):
\* the detector's own dict, the same dict under another class name, a box
\* of zero width, and a confidence of 1.5
CallerDetections ==
    LET car == MakeDetection(<<80, 80, 100, 100>>, 80, 2)
    IN  { car,
          [car EXCEPT !.class_name = "truck"],
          MakeDetection(<<90, 80, 90, 100>>, 80, 2),
          MakeDetection(<<80, 80, 100, 100>>, 150, 2) }

\* update is called with any frame number, also one not above the last one
NextBoundary ==
    \E detections \in SeqsUpTo(CallerDetections, 1), frame_number \in 1..MaxBoundaryFrame :
        /\ last.calls < MaxBoundaryCalls
        /\ Update(detections, frame_number)

SpecBoundary == Init /\ [][NextBoundary]_vars

\* one object seen in every frame: any detection creates the track, the
\* first MaxFreeMoves updates may move it within reach, then it stays put
HistoryDetections ==
    IF tracked_objects = <<>> THEN AllDetections
    ELSE LET track == tracked_objects[1]
         IN  { d \in AllDetections :
                 /\ d.class_id = track.class_id
                 /\ IF last.calls < MaxFreeMoves
                    THEN _calculate_distance(track.center, d.center)
                             < max_distance * max_distance
                    ELSE d.center = track.center }

NextHistory ==
    \E d \in HistoryDetections :
        /\ frame_count < MaxHistoryFrame
        /\ Update(<<d>>, frame_count + 1)

SpecHistory == Init /\ [][NextHistory]_vars

\* one person moving between (90, 100), (110, 100), (90, 90) and (110, 110)
DirectionDetections ==
    { MakeDetection(coords, 80, 0) :
        coords \in { <<80, 90, 100, 110>>, <<100, 90, 120, 110>>,
                     <<80, 80, 100, 100>>, <<100, 100, 120, 120>> } }

NextDirection ==
    \E detections \in SeqsUpTo(DirectionDetections, MaxDirDets) :
        /\ frame_count < MaxDirFrame
        /\ WithinTracks(detections, MaxDirTracks)
        /\ Update(detections, frame_count + 1)

SpecDirection == Init /\ [][NextDirection]_vars

\* one stationary car seen in a few frames and lost for the others, over
\* the frames around the grace period
NextGrace ==
    \E detections \in SeqsUpTo(LifeDetections, 1), gap \in FrameGaps :
        /\ frame_count + gap <= MaxGraceFrame
        /\ last.calls < MaxGraceCalls
        /\ detections /= <<>> => last.busy < MaxGraceBusy
        /\ WithinTracks(detections, MaxGraceTracks)
        /\ Update(detections, frame_count + gap)

SpecGrace == Init /\ [][NextGrace]_vars

\* one person at a time around the counting lines: it is seen for some
\* frames, then lost until its track is inactive, and the next update
\* comes 100 frames later, with another person or with nothing
CumulativeDetections ==
    { MakeDetection(coords, 80, 0) :
        coords \in { <<80, 80, 100, 100>>, <<100, 80, 120, 100>>,
                     <<100, 100, 120, 120>> } }

SomeActive == \E i \in 1..Len(tracked_objects) : tracked_objects[i].is_active

SomeLost ==
    \E i \in 1..Len(tracked_objects) :
        tracked_objects[i].is_active /\ tracked_objects[i].frames_lost > 0

NextCumulative ==
    \E detections \in SeqsUpTo(CumulativeDetections, 1), gap \in {1, 100} :
        /\ last.calls < MaxCumCalls
        /\ detections /= <<>> => last.busy < MaxCumBusy /\ ~SomeLost
        /\ gap = 100 <=> (tracked_objects /= <<>> /\ ~SomeActive)
        /\ WithinTracks(detections, MaxCumTracks)
        /\ Update(detections, frame_count + gap)

SpecCumulative == Init /\ [][NextCumulative]_vars

\* the end points handed to _line_intersection
SegmentPoints == { <<x, y>> : x \in 0..SegMax, y \in 0..SegMax }

\* one call of _line_intersection, and of _check_line_crossings for a
\* track that has not crossed yet and moves from p1 to p2, with the segment
\* from p3 to p4 as the only counting line
LineIntersection(p1, p2, p3, p4) ==
    LET line_info == [ name |-> "horizontal", line |-> <<p3, p4>>,
                       direction |-> "vertical" ]
        checked == CheckLines(<<line_info>>, 1, p1,
                              [ track |-> [ center |-> p2,
                                            has_crossed_line |-> FALSE ],
                                crossing_counts |-> crossing_counts ])
    IN  /\ call' = [ op |-> "_line_intersection",
                     p1 |-> p1, p2 |-> p2, p3 |-> p3, p4 |-> p4,
                     result |-> _line_intersection(p1, p2, p3, p4),
                     has_crossed_line |-> checked.track.has_crossed_line,
                     crossing_counts |-> checked.crossing_counts ]
        /\ UNCHANGED <<inclusion_zones, exclusion_zones, detection_history>>
        /\ UNCHANGED tracker_vars

\* each run probes one pair of segments
NextSegments ==
    /\ call.op = "none"
    /\ \E p1 \in SegmentPoints, p2 \in SegmentPoints,
          p3 \in SegmentPoints, p4 \in SegmentPoints :
           LineIntersection(p1, p2, p3, p4)

SpecSegments == Init /\ [][NextSegments]_vars

-----------------------------------------------------------------------------
(* ROIFilter: zones and _point_in_polygon                                  *)

\* ROIFilter.frame_width, ROIFilter.frame_height as __init__ sets them
frame_width == 640
frame_height == 480

\* int(dimension * percent / 100)
Percent(dimension, percent) == (dimension * percent) \div 100

\* the zone dict built by add_exclusion_zone and add_inclusion_zone
Zone(zone_name, zone_type, polygon_points, active) ==
    [ name |-> zone_name, type |-> zone_type, polygon |-> polygon_points,
      active |-> active ]

\* add_predefined_road_zone: road_zone
road_zone ==
    << << Percent(frame_width, 10), Percent(frame_height, 30) >>,
       << Percent(frame_width, 90), Percent(frame_height, 30) >>,
       << Percent(frame_width, 90), Percent(frame_height, 80) >>,
       << Percent(frame_width, 10), Percent(frame_height, 80) >> >>

\* add_predefined_tree_zones: tree_left and tree_right
tree_left ==
    << <<0, 0>>,
       << Percent(frame_width, 15), 0 >>,
       << Percent(frame_width, 10), Percent(frame_height, 40) >>,
       << 0, Percent(frame_height, 30) >> >>

tree_right ==
    << << Percent(frame_width, 85), 0 >>,
       << frame_width, 0 >>,
       << frame_width, Percent(frame_height, 30) >>,
       << Percent(frame_width, 90), Percent(frame_height, 40) >> >>

Minimum(a, b) == IF a <= b THEN a ELSE b

Maximum(a, b) == IF a >= b THEN a ELSE b

\* x <= xinters for xinters = (y - p1y) * (p2x - p1x) / (p2y - p1y) + p1x,
\* where p1y /= p2y; on integer coordinates the float quotient is within
\* 1e-13 of the rational one and the two sides differ by 0 or by at least
\* 1 / |p2y - p1y|, so the comparison is the one of the cross products
AtOrLeftOfEdge(x, y, p1, p2) ==
    LET dy == p2[2] - p1[2]
        num == (y - p1[2]) * (p2[1] - p1[1])
    IN  IF dy > 0 THEN (x - p1[1]) * dy <= num
                  ELSE (x - p1[1]) * dy >= num

\* an edge toggles on every row it spans, whatever the x of the point
TogglesOnRow(x, y, p1, p2) ==
    /\ y > Minimum(p1[2], p2[2])
    /\ y <= Maximum(p1[2], p2[2])

\* the nested tests of one turn of the loop of _point_in_polygon; with
\* p1y = p2y the first two tests cannot both hold, so xinters is assigned
\* whenever it is read
Toggles(x, y, p1, p2) ==
    /\ y > Minimum(p1[2], p2[2])
    /\ y <= Maximum(p1[2], p2[2])
    /\ x <= Maximum(p1[1], p2[1])
    /\ p1[1] = p2[1] \/ AtOrLeftOfEdge(x, y, p1, p2)

\* the loop of _point_in_polygon from turn i on, p1 being the last vertex
RECURSIVE EdgeLoop(_, _, _, _, _)
EdgeLoop(point, polygon, i, p1, inside) ==
    IF i > Len(polygon) THEN inside
    ELSE LET p2 == polygon[(i % Len(polygon)) + 1]
         IN  EdgeLoop(point, polygon, i + 1, p2,
                      IF Toggles(point[1], point[2], p1, p2) THEN ~inside ELSE inside)

\* polygon[0] raises IndexError on an empty polygon
RaisesIndexError(polygon) == Len(polygon) = 0

\* _point_in_polygon, for a polygon with at least one point
_point_in_polygon(point, polygon) ==
    EdgeLoop(point, polygon, 1, polygon[1], FALSE)

-----------------------------------------------------------------------------
(* ROIFilter.filter_detections                                             *)

\* a zone test that does not look at the active flag
ZoneTestedAnyFlag(zone) == TRUE

\* zone['active'], the left operand of the test of a zone
ZoneTested(zone) == zone.active

\* one of the two loops over a zone list: "inside" at the first active zone
\* that holds the point, "IndexError" at an active zone with no point at
\* all, "outside" when the list is exhausted
RECURSIVE ZoneScan(_, _, _)
ZoneScan(zones, k, point) ==
    IF k > Len(zones) THEN "outside"
    ELSE IF ~ZoneTested(zones[k]) THEN ZoneScan(zones, k + 1, point)
    ELSE IF RaisesIndexError(zones[k].polygon) THEN "IndexError"
    ELSE IF _point_in_polygon(point, zones[k].polygon) THEN "inside"
    ELSE ZoneScan(zones, k + 1, point)

\* detection['roi_filtered'] = True: the key is added to the caller's dict
MarkFiltered(detection) ==
    [ f \in DOMAIN detection \cup {"roi_filtered"} |->
        IF f = "roi_filtered" THEN TRUE ELSE detection[f] ]

\* the loop of filter_detections from detection k on; acc holds the caller's
\* list as the loop has left it and the indices appended to the result
RECURSIVE FilterLoop(_, _, _, _)
FilterLoop(inclusion, exclusion, k, acc) ==
    IF k > Len(acc.detections) THEN acc
    ELSE
      LET point == acc.detections[k].center
          excluded == ZoneScan(exclusion, 1, point)
          included == IF inclusion /= <<>> THEN ZoneScan(inclusion, 1, point)
                                           ELSE "inside"
      IN  IF excluded = "IndexError" THEN [acc EXCEPT !.raised = TRUE]
          ELSE IF excluded = "inside"
            THEN FilterLoop(inclusion, exclusion, k + 1, acc)
          ELSE IF included = "IndexError" THEN [acc EXCEPT !.raised = TRUE]
          ELSE IF included = "outside"
            THEN FilterLoop(inclusion, exclusion, k + 1, acc)
          ELSE FilterLoop(inclusion, exclusion, k + 1,
                          [acc EXCEPT
                             !.detections[k] = MarkFiltered(acc.detections[k]),
                             !.kept = Append(acc.kept, k)])

\* filter_detections: kept lists the indices of the detections returned,
\* detections is the caller's list after the call, raised tells an
\* IndexError left the call without a result
filter_detections(inclusion, exclusion, detections) ==
    IF inclusion = <<>> /\ exclusion = <<>>
    THEN [ detections |-> detections,
           kept |-> [ k \in 1..Len(detections) |-> k ],
           raised |-> FALSE ]
    ELSE FilterLoop(inclusion, exclusion, 1,
                    [ detections |-> detections, kept |-> <<>>, raised |-> FALSE ])

\* the list filter_detections returns
Returned(r) ==
    [ i \in 1..Len(r.kept) |-> r.detections[r.kept[i]] ]

-----------------------------------------------------------------------------
(* ROIFilter: the calls and the runs studied                               *)

\* polygons a caller passes to add_exclusion_zone and add_inclusion_zone:
\* no point at all, two points, and the left tree zone
CallerPolygons == { <<>>, << <<0, 0>>, <<100, 200>> >>, tree_left }

\* zones a zone file read by load_zones may hold
FileZones(zone_type) ==
    { Zone("zone", zone_type, polygon, active) :
        polygon \in CallerPolygons \cup {road_zone}, active \in BOOLEAN }

\* the detections handed to the filter: cars centered at (50, 100),
\* (400, 100), (66, 150) and (300, 200)
RoiDetections ==
    { MakeDetection(coords, 80, 2) :
        coords \in { <<40, 90, 60, 110>>, <<390, 90, 410, 110>>,
                     <<56, 140, 76, 160>>, <<290, 190, 310, 210>> } }

add_exclusion_zone(zone_name, polygon_points) ==
    /\ exclusion_zones' = Append(exclusion_zones,
                                 Zone(zone_name, "exclusion", polygon_points, TRUE))
    /\ call' = [ op |-> "add_exclusion_zone" ]
    /\ UNCHANGED <<inclusion_zones, detection_history>>
    /\ UNCHANGED tracker_vars

add_inclusion_zone(zone_name, polygon_points) ==
    /\ inclusion_zones' = Append(inclusion_zones,
                                 Zone(zone_name, "inclusion", polygon_points, TRUE))
    /\ call' = [ op |-> "add_inclusion_zone" ]
    /\ UNCHANGED <<exclusion_zones, detection_history>>
    /\ UNCHANGED tracker_vars

add_predefined_road_zone ==
    add_inclusion_zone("route_principale", road_zone)

add_predefined_tree_zones ==
    /\ exclusion_zones' =
          Append(Append(exclusion_zones,
                        Zone("arbre_gauche", "exclusion", tree_left, TRUE)),
                 Zone("arbre_droite", "exclusion", tree_right, TRUE))
    /\ call' = [ op |-> "add_predefined_tree_zones" ]
    /\ UNCHANGED <<inclusion_zones, detection_history>>
    /\ UNCHANGED tracker_vars

\* load_zones on a readable file written for the same frame dimensions;
\* the runs studied load a file into a filter that has no zone yet
load_zones(zones_data) ==
    /\ inclusion_zones' = zones_data.inclusion_zones
    /\ exclusion_zones' = zones_data.exclusion_zones
    /\ call' = [ op |-> "load_zones" ]
    /\ UNCHANGED detection_history
    /\ UNCHANGED tracker_vars

\* filter_detections(detections), and what the caller holds afterwards
FilterDetections(detections) ==
    \E r \in { filter_detections(inclusion_zones, exclusion_zones, detections) } :
        /\ call' = [ op |-> "filter_detections",
                     detections |-> detections,
                     after |-> r.detections,
                     kept |-> r.kept,
                     result |-> Returned(r),
                     raised |-> r.raised,
                     inclusion_pre |-> inclusion_zones,
                     exclusion_pre |-> exclusion_zones ]
        /\ UNCHANGED <<inclusion_zones, exclusion_zones, detection_history>>
        /\ UNCHANGED tracker_vars

ZoneCount == Len(inclusion_zones) + Len(exclusion_zones)

\* zones are loaded and added, and each new configuration filters one list

NextRoi ==
    \/ \E polygon \in CallerPolygons :
          /\ ZoneCount < MaxZones
          /\ add_exclusion_zone("zone", polygon)
    \/ \E polygon \in CallerPolygons :
          /\ ZoneCount < MaxZones
          /\ add_inclusion_zone("zone", polygon)
    \/ /\ ZoneCount < MaxZones
       /\ add_predefined_road_zone
    \/ /\ ZoneCount + 2 <= MaxZones
       /\ add_predefined_tree_zones
    \/ \E inclusion \in SeqsUpTo(FileZones("inclusion"), 1),
          exclusion \in SeqsUpTo(FileZones("exclusion"), 1) :
          /\ ZoneCount = 0
          /\ load_zones([ frame_dimensions |-> <<frame_width, frame_height>>,
                          inclusion_zones |-> inclusion,
                          exclusion_zones |-> exclusion ])
    \/ \E detections \in SeqsUpTo(RoiDetections, MaxRoiDets) :
          /\ call.op /= "filter_detections"
          /\ FilterDetections(detections)

SpecRoi == Init /\ [][NextRoi]_vars

-----------------------------------------------------------------------------
(* _point_in_polygon on simple polygons                                    *)

\* twice the signed area of the triangle a, b, c
Cross(a, b, c) ==
    (b[1] - a[1]) * (c[2] - a[2]) - (b[2] - a[2]) * (c[1] - a[1])

\* p lies on the closed segment a b
OnSegment(p, a, b) ==
    /\ Cross(a, b, p) = 0
    /\ Minimum(a[1], b[1]) <= p[1] /\ p[1] <= Maximum(a[1], b[1])
    /\ Minimum(a[2], b[2]) <= p[2] /\ p[2] <= Maximum(a[2], b[2])

\* the closed segments a b and c d have a point in common
SegmentsMeet(a, b, c, d) ==
    \/ /\ Cross(a, b, c) * Cross(a, b, d) < 0
       /\ Cross(c, d, a) * Cross(c, d, b) < 0
    \/ OnSegment(c, a, b) \/ OnSegment(d, a, b)
    \/ OnSegment(a, c, d) \/ OnSegment(b, c, d)

\* the i-th edge of the closed polygon
EdgeOf(polygon, i) == << polygon[i], polygon[(i % Len(polygon)) + 1] >>

\* a simple polygon: distinct vertices, consecutive edges meet in their
\* common vertex only, other edges do not meet
IsSimple(polygon) ==
    LET n == Len(polygon)
        Next2(i) == (i % n) + 1
    IN  /\ n >= 3
        /\ \A i, j \in 1..n : i /= j => polygon[i] /= polygon[j]
        /\ \A i \in 1..n :
              /\ ~OnSegment(polygon[i], polygon[Next2(i)], polygon[Next2(Next2(i))])
              /\ ~OnSegment(polygon[Next2(Next2(i))], polygon[i], polygon[Next2(i)])
        /\ \A i, j \in 1..n :
              (i < j /\ Next2(i) /= j /\ Next2(j) /= i) =>
                  ~SegmentsMeet(EdgeOf(polygon, i)[1], EdgeOf(polygon, i)[2],
                                EdgeOf(polygon, j)[1], EdgeOf(polygon, j)[2])

\* the points of the grid 0..GridMax x 0..GridMax
GridPoints == { <<x, y>> : x \in 0..GridMax, y \in 0..GridMax }

\* an L and a U made of horizontal and vertical edges
LShape == << <<0, 0>>, <<4, 0>>, <<4, 2>>, <<2, 2>>, <<2, 4>>, <<0, 4>> >>

UShape == << <<0, 0>>, <<6, 0>>, <<6, 4>>, <<4, 4>>, <<4, 2>>, <<2, 2>>,
             <<2, 4>>, <<0, 4>> >>

\* the polygons handed to _point_in_polygon: every simple triangle and
\* quadrilateral of the grid, the L and the U
Polygons ==
    { polygon \in { <<a, b, c>> : a \in GridPoints, b \in GridPoints,
                                   c \in GridPoints }
                     \cup { <<a, b, c, d>> : a \in GridPoints, b \in GridPoints,
                                             c \in GridPoints, d \in GridPoints } :
        IsSimple(polygon) }
      \cup {LShape, UShape}

\* the integer points of the bounding box of the polygon and of a margin
\* of one around it
PointsAround(polygon) ==
    LET xs == { polygon[i][1] : i \in 1..Len(polygon) }
        ys == { polygon[i][2] : i \in 1..Len(polygon) }
        lowest(S) == CHOOSE m \in S : \A v \in S : m <= v
        highest(S) == CHOOSE m \in S : \A v \in S : m >= v
    IN  { <<x, y>> : x \in (lowest(xs) - 1)..(highest(xs) + 1),
                     y \in (lowest(ys) - 1)..(highest(ys) + 1) }

\* _point_in_polygon(point, polygon) for every point around the polygon
PointInPolygon(polygon) ==
    /\ call' = [ op |-> "_point_in_polygon",
                 polygon |-> polygon,
                 inside |-> { point \in PointsAround(polygon) :
                                _point_in_polygon(point, polygon) } ]
    /\ UNCHANGED <<inclusion_zones, exclusion_zones, detection_history>>
    /\ UNCHANGED tracker_vars

\* each run probes one polygon
NextPolygon ==
    /\ call.op = "none"
    /\ \E polygon \in Polygons : PointInPolygon(polygon)

SpecPolygon == Init /\ [][NextPolygon]_vars

-----------------------------------------------------------------------------
(* MovementCoherenceFilter                                                 *)

\* MovementCoherenceFilter(): min_movement_pixels, max_jitter_pixels
min_movement == 5
max_jitter == 50

\* positions kept per identifier, positions needed for an analysis
MaxPositions == 10
MinPositions == 3

\* (dx**2 + dy**2)**0.5; the positions studied are at integer distances
\* from one another, where the float result is that integer
Magnitude(dx, dy) ==
    CHOOSE r \in 0..(Abs(dx) + Abs(dy)) : r * r = dx * dx + dy * dy

\* the list movements
Movements(positions) ==
    [ i \in 1..(Len(positions) - 1) |->
        Magnitude(positions[i + 1][1] - positions[i][1],
                  positions[i + 1][2] - positions[i][2]) ]

RECURSIVE Sum(_)
Sum(values) ==
    IF values = <<>> THEN 0 ELSE Head(values) + Sum(Tail(values))

\* np.var(movements) > limit, on integers: the variance is
\* (n * sum of squares - square of the sum) / n**2
VarianceExceeds(movements, limit) ==
    LET n == Len(movements)
        squares == [ i \in 1..n |-> movements[i] * movements[i] ]
    IN  n * Sum(squares) - Sum(movements) * Sum(movements) > limit * n * n

\* np.mean(movements) < limit, on integers
MeanBelow(movements, limit) ==
    Sum(movements) < limit * Len(movements)

\* an analysis that looks at the mean only
MeanOnlyCoherence(positions) ==
    IF Len(positions) < MinPositions THEN TRUE
    ELSE ~MeanBelow(Movements(positions), min_movement)

\* _analyze_movement_coherence
_analyze_movement_coherence(positions) ==
    IF Len(positions) < MinPositions THEN TRUE
    ELSE IF VarianceExceeds(Movements(positions), max_jitter * max_jitter) THEN FALSE
    ELSE IF MeanBelow(Movements(positions), min_movement) THEN FALSE
    ELSE TRUE

\* a history that is never trimmed
Untrimmed(history) == history

\* if len(history) > 10: history.pop(0)
Trimmed(history) ==
    IF Len(history) > MaxPositions THEN Tail(history) ELSE history

\* self.detection_history.get(track_id), [] for an unknown identifier
HistoryOf(histories, track_id) ==
    IF track_id \in DOMAIN histories THEN histories[track_id] ELSE <<>>

\* an assignment that rebuilds the dict with the one key
DictOnly(d, key, value) == [ k \in {key} |-> value ]

\* d[track_id] = history on a dict
DictPut(d, key, value) ==
    [ k \in DOMAIN d \cup {key} |-> IF k = key THEN value ELSE d[k] ]

\* update_detection_movement(track_id, position)
update_detection_movement(track_id, position) ==
    LET history == Trimmed(Append(HistoryOf(detection_history, track_id), position))
        result == IF Len(history) >= MinPositions
                  THEN _analyze_movement_coherence(history)
                  ELSE TRUE
        submitted == IF call.op = "update_detection_movement"
                     THEN call.submitted ELSE <<>>
    IN  /\ detection_history' = DictPut(detection_history, track_id, history)
        /\ call' = [ op |-> "update_detection_movement",
                     track_id |-> track_id,
                     position |-> position,
                     result |-> result,
                     submitted |-> DictPut(submitted, track_id,
                                           Append(HistoryOf(submitted, track_id),
                                                  position)) ]
        /\ UNCHANGED <<inclusion_zones, exclusion_zones>>
        /\ UNCHANGED tracker_vars

\* identifier 1 is reported at (0, 0) or (110, 0), identifier 2 at (0, 0)
Reports == { <<1, <<0, 0>>>>, <<1, <<110, 0>>>>, <<2, <<0, 0>>>> }

\* the number of calls made so far
MoveCalls ==
    IF call.op = "update_detection_movement"
    THEN Sum([ i \in 1..2 |-> Len(HistoryOf(call.submitted, i)) ])
    ELSE 0

NextMovement ==
    \E report \in Reports :
        /\ MoveCalls < MaxMoveCalls
        /\ update_detection_movement(report[1], report[2])

SpecMovement == Init /\ [][NextMovement]_vars

\* update_detection_movement step by step: one caller per identifier (the
\* calls for one identifier are serialized), the callers of different
\* identifiers interleaved between any two steps

MovementIds == {1, 2}

Idle == [ pc |-> "idle", position |-> <<0, 0>>, verdict |-> TRUE, calls |-> 0 ]

\* the callers, and every position submitted so far per identifier
Callers ==
    IF call.op = "movement_steps" THEN call.callers
    ELSE [ id \in MovementIds |-> Idle ]

SubmittedBy ==
    IF call.op = "movement_steps" THEN call.submitted
    ELSE [ id \in MovementIds |-> <<>> ]

\* identifier 1 advances by 10 pixels per call, identifier 2 stays put
PositionOf(track_id, k) == IF track_id = 1 THEN <<10 * k, 0>> ELSE <<0, 0>>

\* the caller of track_id moves to pc, the dict becomes histories
MovementStep(track_id, caller, histories) ==
    /\ call' = [ op |-> "movement_steps",
                 callers |-> [Callers EXCEPT ![track_id] = caller],
                 submitted |->
                     IF Callers[track_id].pc = "idle"
                     THEN [SubmittedBy EXCEPT ![track_id] = Append(@, caller.position)]
                     ELSE SubmittedBy ]
    /\ detection_history' = histories
    /\ UNCHANGED <<inclusion_zones, exclusion_zones>>
    /\ UNCHANGED tracker_vars

\* the call is made
BeginMovement(track_id) ==
    /\ Callers[track_id].pc = "idle"
    /\ Callers[track_id].calls < MaxStepCalls
    /\ MovementStep(track_id,
                    [Callers[track_id] EXCEPT
                        !.pc = "test",
                        !.calls = @ + 1,
                        !.position = PositionOf(track_id, Callers[track_id].calls + 1)],
                    detection_history)

\* if track_id not in self.detection_history
TestMovement(track_id) ==
    /\ Callers[track_id].pc = "test"
    /\ MovementStep(track_id,
                    [Callers[track_id] EXCEPT
                        !.pc = IF track_id \in DOMAIN detection_history
                               THEN "append" ELSE "insert"],
                    detection_history)

\* self.detection_history[track_id] = []
InsertMovement(track_id) ==
    /\ Callers[track_id].pc = "insert"
    /\ MovementStep(track_id, [Callers[track_id] EXCEPT !.pc = "append"],
                    DictPut(detection_history, track_id, <<>>))

\* history = self.detection_history[track_id]; history.append(position)
AppendMovement(track_id) ==
    /\ Callers[track_id].pc = "append"
    /\ MovementStep(track_id, [Callers[track_id] EXCEPT !.pc = "evict"],
                    DictPut(detection_history, track_id,
                            Append(HistoryOf(detection_history, track_id),
                                   Callers[track_id].position)))

\* if len(history) > 10: history.pop(0)
EvictMovement(track_id) ==
    /\ Callers[track_id].pc = "evict"
    /\ MovementStep(track_id, [Callers[track_id] EXCEPT !.pc = "analyze"],
                    DictPut(detection_history, track_id,
                            Trimmed(HistoryOf(detection_history, track_id))))

\* the analysis and the return
AnalyzeMovement(track_id) ==
    /\ Callers[track_id].pc = "analyze"
    /\ MovementStep(track_id,
                    [Callers[track_id] EXCEPT
                        !.pc = "idle",
                        !.verdict =
                            IF Len(HistoryOf(detection_history, track_id)) >= MinPositions
                            THEN _analyze_movement_coherence(
                                     HistoryOf(detection_history, track_id))
                            ELSE TRUE],
                    detection_history)

NextMovementSteps ==
    \E track_id \in MovementIds :
        \/ BeginMovement(track_id)
        \/ TestMovement(track_id)
        \/ InsertMovement(track_id)
        \/ AppendMovement(track_id)
        \/ EvictMovement(track_id)
        \/ AnalyzeMovement(track_id)

SpecMovementSteps == Init /\ [][NextMovementSteps]_vars

-----------------------------------------------------------------------------
(* ContextualValidator                                                     *)

\* a quotient taken without looking at the divisor
UnguardedRatio(numerator, denominator) ==
    [ num |-> numerator, den |-> denominator, raised |-> denominator = 0 ]

\* numerator / denominator if denominator > 0 else 0, as a fraction
GuardedRatio(numerator, denominator) ==
    IF denominator > 0
    THEN [ num |-> numerator, den |-> denominator, raised |-> FALSE ]
    ELSE [ num |-> 0, den |-> 1, raised |-> FALSE ]

\* aspect_ratio < tenths / 10 or aspect_ratio > 4.0
\* (the denominator of a ratio is positive)
RatioOutside(ratio, tenths) ==
    \/ 10 * ratio.num < tenths * ratio.den
    \/ ratio.num > 4 * ratio.den

\* _validate_vehicle: center[1] < height * 0.4, then the ratio
_validate_vehicle(detection, frame_dimensions) ==
    LET height == frame_dimensions[2]
        obj_width == detection.bbox[3] - detection.bbox[1]
        obj_height == detection.bbox[4] - detection.bbox[2]
        aspect_ratio == GuardedRatio(obj_width, obj_height)
    IN  IF 10 * detection.center[2] < 4 * height
        THEN [ result |-> FALSE, raised |-> FALSE ]
        ELSE IF aspect_ratio.raised
        THEN [ result |-> FALSE, raised |-> TRUE ]
        ELSE [ result |-> ~RatioOutside(aspect_ratio, 8), raised |-> FALSE ]

\* _validate_person
_validate_person(detection, frame_dimensions) ==
    LET obj_width == detection.bbox[3] - detection.bbox[1]
        obj_height == detection.bbox[4] - detection.bbox[2]
        aspect_ratio == GuardedRatio(obj_height, obj_width)
    IN  IF aspect_ratio.raised
        THEN [ result |-> FALSE, raised |-> TRUE ]
        ELSE [ result |-> ~RatioOutside(aspect_ratio, 12), raised |-> FALSE ]

\* validate_detection
validate_detection(detection, frame_dimensions) ==
    IF detection.class_name \in {"car", "truck", "bus"}
    THEN _validate_vehicle(detection, frame_dimensions)
    ELSE IF detection.class_name = "person"
    THEN _validate_person(detection, frame_dimensions)
    ELSE [ result |-> TRUE, raised |-> FALSE ]

\* the sides of the boxes studied: 0, 10, ... pixels
Sides == { 10 * k : k \in 0..MaxSide }

\* the frames studied, and the rows around 40% of their heights
Frames == { <<640, 480>>, <<1280, 720>> }
CenterRows == { 191, 192, 288 }

\* a detection of a box of the given sides centred on a row
BoxDetection(class_name, obj_width, obj_height, row) ==
    [ bbox |-> <<320 - obj_width \div 2, row - obj_height \div 2,
                 320 - obj_width \div 2 + obj_width,
                 row - obj_height \div 2 + obj_height>>,
      center |-> <<320, row>>,
      class_name |-> class_name,
      confidence |-> 1 ]

ValidatedDetections ==
    { BoxDetection(class_name, obj_width, obj_height, row) :
        class_name \in {"car", "truck", "bus", "person", "bicycle"},
        obj_width \in Sides, obj_height \in Sides, row \in CenterRows }

\* one call of validate_detection
ValidateDetection(detection, frame_dimensions) ==
    LET r == validate_detection(detection, frame_dimensions)
    IN  /\ call' = [ op |-> "validate_detection",
                     detection |-> detection,
                     frame_dimensions |-> frame_dimensions,
                     result |-> r.result,
                     raised |-> r.raised ]
        /\ UNCHANGED <<inclusion_zones, exclusion_zones, detection_history>>
        /\ UNCHANGED tracker_vars

NextValidate ==
    /\ call.op = "none"
    /\ \E detection \in ValidatedDetections, frame_dimensions \in Frames :
           ValidateDetection(detection, frame_dimensions)

SpecValidate == Init /\ [][NextValidate]_vars

-----------------------------------------------------------------------------
(* get_tracking_statistics                                                 *)

\* the test selecting completed_tracks
IsCompleted(track) == ~track.is_active /\ track.frames_tracked >= min_track_length

RECURSIVE SumFramesTracked(_)
SumFramesTracked(tracks) ==
    IF tracks = <<>> THEN 0
    ELSE Head(tracks).frames_tracked + SumFramesTracked(Tail(tracks))

\* average_track_length is the quotient sum / count, kept as the pair
get_tracking_statistics ==
    LET active_tracks == SelectSeq(tracked_objects, IsActive)
        completed_tracks == SelectSeq(tracked_objects, IsCompleted)
        listed == active_tracks \o completed_tracks
        names == { listed[i].class_name : i \in 1..Len(listed) }
        Count(seq, name) == Cardinality({ i \in 1..Len(seq) : seq[i].class_name = name })
    IN  [ active_tracks |-> Len(active_tracks),
          completed_tracks |-> Len(completed_tracks),
          total_tracks_created |-> total_tracks_created,
          crossing_counts |-> crossing_counts,
          class_statistics |->
              [ name \in names |->
                  [ active |-> Count(active_tracks, name),
                    completed |-> Count(completed_tracks, name),
                    total |-> Count(listed, name) ] ],
          average_track_length |->
              IF Len(completed_tracks) > 0
              THEN [ sum |-> SumFramesTracked(completed_tracks),
                     count |-> Len(completed_tracks) ]
              ELSE [ sum |-> 0, count |-> 1 ] ]

\* a returned mapping that is the tracker's own dict
Aliased(counts) == [ mapping |-> counts, is_own |-> TRUE ]

\* self.crossing_counts.copy(): the same entries in a new dict
Copied(counts) == [ mapping |-> counts, is_own |-> FALSE ]

\* one call of get_tracking_statistics; the caller keeps what it returned
GetTrackingStatistics ==
    LET returned == Copied(crossing_counts)
    IN  /\ call' = [ op |-> "get_tracking_statistics",
                     stats |-> [get_tracking_statistics
                                  EXCEPT !.crossing_counts = returned.mapping],
                     is_own |-> returned.is_own,
                     edits |-> 0 ]
        /\ UNCHANGED tracker_vars
        /\ UNCHANGED <<inclusion_zones, exclusion_zones, detection_history>>

\* the caller runs stats['crossing_counts'][direction] += 1 on what it was
\* returned; a write to the tracker's own dict is seen by the tracker
EditReturned(direction) ==
    /\ call.op = "get_tracking_statistics"
    /\ call.edits < MaxEdits
    /\ call' = [call EXCEPT !.stats.crossing_counts[direction] = @ + 1,
                            !.edits = @ + 1]
    /\ crossing_counts' = IF call.is_own
                          THEN [crossing_counts EXCEPT ![direction] = @ + 1]
                          ELSE crossing_counts
    /\ UNCHANGED <<tracked_objects, next_track_id, frame_count,
                   total_tracks_created, total_tracks_completed,
                   detection_zone, counting_lines, last, hist>>
    /\ UNCHANGED <<inclusion_zones, exclusion_zones, detection_history>>

\* updates of one person around the counting lines, statistics read and
\* edited by the caller at any point between them
NextStats ==
    \/ \E detections \in SeqsUpTo(DirectionDetections, 1) :
          /\ frame_count < MaxStatsFrame
          /\ Update(detections, frame_count + 1)
    \/ GetTrackingStatistics
    \/ \E direction \in {"north", "south", "east", "west"} : EditReturned(direction)

SpecStats == Init /\ [][NextStats]_vars

-----------------------------------------------------------------------------
(* Properties                                                              *)

Entries == { hist[k] : k \in 1..Len(hist) }

\* the observation of a track of the table
EntryOf(track) ==
    CHOOSE e \in Entries : e.track_id = track.track_id /\ e.in_table

Tracks(objs) == { objs[i] : i \in 1..Len(objs) }

HasEntry(track) == \E e \in Entries : e.track_id = track.track_id /\ e.in_table

\* C1: identifiers are handed out in strictly increasing order over the whole
\* run, so none is assigned twice, also after tracks have been purged
C1_IdsStrictlyIncreasing ==
    /\ \A i, j \in 1..Len(hist) : i < j => hist[i].track_id < hist[j].track_id
    /\ \A i \in 1..Len(hist) : hist[i].track_id < next_track_id
    /\ \A t \in Tracks(tracked_objects) : HasEntry(t)

\* a track is created after an earlier one has been purged
C1_CreatedAfterPurge ==
    \E i, j \in 1..Len(hist) :
        /\ i < j
        /\ ~hist[i].in_table
        /\ hist[j].created_frame >= hist[i].purged_frame

\* C2: the association of an update is one-to-one: no track twice, no
\* detection position twice
C2_OneToOne ==
    /\ \A k \in 1..Len(last.associations) :
          /\ last.associations[k].det_idx \in 1..Len(last.detections)
          /\ last.associations[k].detection
                = last.detections[last.associations[k].det_idx]
    /\ \A i, j \in 1..Len(last.associations) :
          i /= j =>
             /\ last.associations[i].track_id /= last.associations[j].track_id
             /\ last.associations[i].det_idx /= last.associations[j].det_idx

\* two tracks, each within reach of both detections of the frame, both associated
C2_TwoPairsContended ==
    /\ Len(last.associations) = 2
    /\ \A i, j \in 1..2 :
          LET track == GetTrack(last.pre, last.associations[i].track_id)
              detection == last.associations[j].detection
          IN  /\ SameClass(track, detection)
              /\ WithinMaxDistance(_calculate_distance(track.center, detection.center))

\* C3: a track turns inactive in the update that makes its run of unmatched
\* updates max_frames_lost long, not before, and only once
C3_InactiveAtMaxFramesLost ==
    /\ \A e \in Entries :
          /\ e.deactivations <= 1
          /\ e.completions <= 1
          /\ e.deactivations = 1 => e.run_at_deactivation = max_frames_lost
          /\ e.unmatched_run >= max_frames_lost => e.deactivations = 1
    /\ \A t \in Tracks(tracked_objects) :
          HasEntry(t) /\ (t.is_active <=> EntryOf(t).deactivations = 0)

\* an inactive track still in the table that has seen further updates
C3_InactiveAndUpdatedAgain ==
    \E t \in Tracks(tracked_objects) :
        /\ ~t.is_active
        /\ HasEntry(t)
        /\ EntryOf(t).deactivations = 1
        /\ EntryOf(t).inactive_frame < frame_count

FramesLostRule(inactive_ages) ==
    last.called =>
        \A t \in Tracks(last.pre) :
            LET after == GetTrack(last.aged, t.track_id)
            IN  /\ IndexOf(last.aged, t.track_id) > 0
                /\ IF IsAssociated(last.associations, t.track_id)
                   THEN after.frames_lost = 0
                   ELSE IF t.is_active \/ inactive_ages
                        THEN after.frames_lost = t.frames_lost + 1
                        ELSE after.frames_lost = t.frames_lost

\* C4 as stated: every track of the table that is not associated ages by 1
C4_EveryUnmatchedTrackAges == FramesLostRule(TRUE)

\* C4: an associated track has frames_lost = 0 afterwards, an active track
\* that is not associated has frames_lost increased by exactly 1, and an
\* inactive track keeps its frames_lost
C4_ActiveUnmatchedTrackAges == FramesLostRule(FALSE)

\* an update with an inactive track in the table and an associated track
C4_InactiveBesideAssociated ==
    /\ last.called
    /\ \E t \in Tracks(last.pre) : ~t.is_active
    /\ \E t \in Tracks(last.pre) : IsAssociated(last.associations, t.track_id)

\* C5: has_crossed_line is set at most once and never cleared, and a track
\* causes at most one counter increment over all lines and directions
C5_CountedAtMostOnce ==
    /\ \A e \in Entries :
          /\ e.flag_sets <= 1
          /\ e.flag_resets = 0
          /\ e.increments <= 1
    /\ \A t \in Tracks(tracked_objects) :
          HasEntry(t) /\ (t.has_crossed_line <=> EntryOf(t).flag_sets = 1)

CrossesLine(old_center, new_center, k) ==
    _line_intersection(old_center, new_center,
                       counting_lines[k].line[1], counting_lines[k].line[2])

\* a track that had crossed before moves across a counting line again
C5_CrossesAgain ==
    \E k \in 1..Len(last.associations) :
        LET before == GetTrack(last.pre, last.associations[k].track_id)
        IN  /\ before.has_crossed_line
            /\ \E n \in 1..Len(counting_lines) :
                  CrossesLine(before.center, last.associations[k].detection.center, n)

\* C6 as stated: a purged track had been inactive for the grace period
C6_PurgedAfterGraceSinceInactive ==
    \A e \in Entries :
        ~e.in_table => e.purged_frame - e.inactive_frame >= CleanupAge

\* C6: an inactive track stays in the table while the current frame is at most
\* 100 frames after its last_seen_frame (the last frame it was matched on) and
\* is removed by the first update whose frame number is more than 100 after it
C6_PurgedAfterGraceSinceLastSeen ==
    \A e \in Entries :
        /\ ~e.in_table =>
              /\ e.deactivations = 1
              /\ e.purged_frame - e.last_seen > CleanupAge
        /\ (e.in_table /\ e.deactivations = 1) =>
              frame_count - e.last_seen <= CleanupAge

\* a track purged fewer than 100 frames after it became inactive, and later
\* than the update that made it inactive
C6_PurgedEarly ==
    \E e \in Entries :
        /\ ~e.in_table
        /\ e.purged_frame > e.inactive_frame
        /\ e.purged_frame - e.inactive_frame < CleanupAge

RECURSIVE SumCompletions(_)
SumCompletions(entries) ==
    IF entries = <<>> THEN 0
    ELSE Head(entries).completions + SumCompletions(Tail(entries))

\* C7: turning inactive increments the completed count iff frames_tracked >=
\* min_track_length; shorter tracks are counted neither in
\* total_tracks_completed nor in the statistics' completed_tracks
C7_CompletedIffLongEnough ==
    /\ \A e \in Entries :
          /\ e.deactivations = 0 => e.completions = 0
          /\ e.deactivations = 1 =>
                (e.completions = 1 <=> e.tracked_at_deactivation >= min_track_length)
    /\ total_tracks_completed = SumCompletions(hist)
    /\ get_tracking_statistics.completed_tracks =
          Cardinality({ e \in Entries : e.in_table /\ e.completions = 1 })

\* a track matched on 3 frames has turned inactive
C7_ShortTrackInactive ==
    \E t \in Tracks(tracked_objects) :
        /\ ~t.is_active
        /\ t.frames_tracked = 3
        /\ total_tracks_completed = 0

ShortTrackRule(n) ==
    \A t \in Tracks(tracked_objects) :
        (t.frames_tracked = 3 /\ HasEntry(t)) =>
            /\ EntryOf(t).unmatched_run < n => t.is_active
            /\ EntryOf(t).unmatched_run = n =>
                  (~t.is_active /\ EntryOf(t).inactive_frame = frame_count)

\* C8 as stated: still active after the 10th absent update, inactive on the 11th
C8_InactiveOnEleventhAbsence == ShortTrackRule(max_frames_lost + 1)

\* C8: a track matched on 3 updates and then absent is still active after the
\* 9th absent update and turns inactive exactly on the 10th
C8_InactiveOnTenthAbsence == ShortTrackRule(max_frames_lost)

\* a track matched on 3 updates, just after its 10th absent update
C8_ShortTrackTenthAbsence ==
    \E t \in Tracks(tracked_objects) :
        /\ t.frames_tracked = 3
        /\ HasEntry(t)
        /\ EntryOf(t).unmatched_run = max_frames_lost

ActiveClasses(objs) == { t.class_id : t \in { u \in Tracks(objs) : u.is_active } }

\* C9: every committed pair has equal classes, and a detection of a class no
\* active track has creates a new track
C9_ClassGated ==
    last.called =>
        /\ \A k \in 1..Len(last.associations) :
              GetTrack(last.pre, last.associations[k].track_id).class_id
                 = last.associations[k].detection.class_id
        /\ \A j \in 1..Len(last.detections) :
              last.detections[j].class_id \notin ActiveClasses(last.pre) =>
                 \E t \in Tracks(tracked_objects) :
                    /\ ListContains(last.created_ids, t.track_id)
                    /\ t.class_id = last.detections[j].class_id
                    /\ t.center = last.detections[j].center
                    /\ t.first_seen_frame = last.frame_number
                    /\ t.frames_tracked = 1

\* a detection on the very center of an active track of the other class,
\* with no active track of its own class
C9_OtherClassSameCenter ==
    /\ last.called
    /\ \E j \in 1..Len(last.detections) :
          /\ last.detections[j].class_id \notin ActiveClasses(last.pre)
          /\ \E t \in Tracks(last.pre) :
                t.is_active /\ t.center = last.detections[j].center

\* C10 as stated: a same-class pair is excluded exactly when its distance
\* exceeds max_distance; at a distance equal to max_distance the only
\* candidate pair is associated
C10_EqualDistanceAssociated ==
    last.called =>
        \A t \in Tracks(last.pre) :
            (/\ t.is_active
             /\ Cardinality({ u \in Tracks(last.pre) : u.is_active }) = 1
             /\ Len(last.detections) = 1
             /\ SameClass(t, last.detections[1])) =>
                (IsAssociated(last.associations, t.track_id)
                   <=> _calculate_distance(t.center, last.detections[1].center)
                          <= max_distance * max_distance)

\* the detections of the track's class at the least distance from the track
NearestOf(t, detections) ==
    { j \in 1..Len(detections) :
        /\ detections[j].class_id = t.class_id
        /\ \A i \in 1..Len(detections) :
              detections[i].class_id = t.class_id =>
                  _calculate_distance(t.center, detections[j].center)
                      <= _calculate_distance(t.center, detections[i].center) }

\* in the class, every active track has one nearest detection, at a squared
\* distance of at most limit, and no two tracks have the same one
DistinctNearest(class_id, objs, detections, limit) ==
    LET tracks == { t \in Tracks(objs) : t.is_active /\ t.class_id = class_id }
    IN  /\ tracks /= {}
        /\ \A t \in tracks :
              /\ Cardinality(NearestOf(t, detections)) = 1
              /\ \A j \in NearestOf(t, detections) :
                    _calculate_distance(t.center, detections[j].center) <= limit
        /\ \A t, u \in tracks :
              t.track_id /= u.track_id =>
                  NearestOf(t, detections) \cap NearestOf(u, detections) = {}

\* every active track of the class is associated with its nearest detection
NoIdentitySwap(class_id, limit) ==
    DistinctNearest(class_id, last.pre, last.detections, limit) =>
        \A t \in Tracks(last.pre) :
            (t.is_active /\ t.class_id = class_id) =>
                \E k \in 1..Len(last.associations) :
                    /\ last.associations[k].track_id = t.track_id
                    /\ last.associations[k].det_idx \in NearestOf(t, last.detections)

\* C12 as stated: when every active track of a class has its nearest
\* detection of that class within max_distance and no two of them share it,
\* the update associates every such track with its own nearest detection
C12_NearestWithinMaxDistance ==
    last.called =>
        \A class_id \in Classes : NoIdentitySwap(class_id, max_distance * max_distance)

\* the tracks that were active when the update began and are in the table,
\* inactive, after it
TurnedInactive ==
    { t \in Tracks(tracked_objects) :
        /\ ~t.is_active
        /\ \E b \in Tracks(last.pre) : b.track_id = t.track_id /\ b.is_active }

\* C13: the list update returns holds exactly the tracks of the table that
\* are active after the update, each once: the tracks created by this
\* update and the lost ones (0 < frames_lost < max_frames_lost) are in it,
\* the tracks this update turned inactive are not
C13_ReturnsActiveTracks ==
    last.called =>
        /\ Tracks(last.returned) = { t \in Tracks(tracked_objects) : t.is_active }
        /\ \A i, j \in 1..Len(last.returned) :
              last.returned[i].track_id = last.returned[j].track_id => i = j
        /\ \A k \in 1..Len(last.created_ids) :
              \E t \in Tracks(last.returned) : t.track_id = last.created_ids[k]
        /\ \A t \in Tracks(tracked_objects) :
              (0 < t.frames_lost /\ t.frames_lost < max_frames_lost) =>
                  t \in Tracks(last.returned)
        /\ \A t \in TurnedInactive :
              \A u \in Tracks(last.returned) : u.track_id /= t.track_id

\* an update turns a track inactive and leaves it in the table
C13_TurnedInactiveNotReturned ==
    /\ last.called
    /\ TurnedInactive /= {}
    /\ \A t \in TurnedInactive : t \notin Tracks(last.returned)

\* C14 as stated: an update whose frame_number is not strictly greater than
\* the frame number of the previous update call is rejected, and the
\* tracker's state is what it was before the call
C14_StaleFrameRejected ==
    (last.calls >= 2 /\ last.frame_number <= last.frame_pre) =>
        /\ tracked_objects = last.pre
        /\ frame_count = last.frame_pre
        /\ crossing_counts = last.counts_pre
        /\ total_tracks_created = last.created_pre
        /\ total_tracks_completed = last.completed_pre

\* a degenerate box (x1 >= x2 or y1 >= y2) or a confidence outside [0, 1]
Malformed(bbox, confidence) ==
    \/ bbox[1] >= bbox[3]
    \/ bbox[2] >= bbox[4]
    \/ confidence < 0
    \/ confidence > 100

\* C15 as stated: a detection with a degenerate box or a confidence outside
\* [0, 1] passed to update is not associated with any track, creates no
\* track (total_tracks_created grows by the well-formed detections at
\* most) and is never stored in a track of the table
C15_MalformedDetectionExcluded ==
    last.called =>
        /\ \A k \in 1..Len(last.associations) :
              ~Malformed(last.associations[k].detection.bbox,
                         last.associations[k].detection.confidence)
        /\ total_tracks_created - last.created_pre
              <= Cardinality({ j \in 1..Len(last.detections) :
                                 ~Malformed(last.detections[j].bbox,
                                            last.detections[j].confidence) })
        /\ \A t \in Tracks(tracked_objects) : ~Malformed(t.bbox, t.confidence)

\* the tracks the update took out of the table
Purged == { b \in Tracks(last.pre) : IndexOf(tracked_objects, b.track_id) = 0 }

\* C16: in every reachable state an update with an empty detection list
\* runs to its end; it creates no track, leaves the center, the class,
\* frames_tracked and has_crossed_line of every track and the crossing
\* counters as they were, adds 1 to frames_lost of the active tracks only,
\* and takes out of the table only inactive tracks last seen more than
\* CleanupAge frames ago
C16_EmptyUpdateOnlyAges ==
    /\ UpdateSteps(<<>>, frame_count + 1).final.total_tracks_created = total_tracks_created
    /\ (last.called /\ last.detections = <<>>) =>
          /\ last.created_ids = <<>>
          /\ total_tracks_created = last.created_pre
          /\ crossing_counts = last.counts_pre
          /\ \A t \in Tracks(tracked_objects) :
                \E b \in Tracks(last.pre) :
                    /\ b.track_id = t.track_id
                    /\ t.center = b.center
                    /\ t.class_id = b.class_id
                    /\ t.class_name = b.class_name
                    /\ t.frames_tracked = b.frames_tracked
                    /\ t.has_crossed_line = b.has_crossed_line
                    /\ t.frames_lost = IF b.is_active THEN b.frames_lost + 1
                                                     ELSE b.frames_lost
          /\ \A b \in Purged :
                /\ ~b.is_active \/ b.frames_lost + 1 >= max_frames_lost
                /\ last.frame_number - b.last_seen_frame > CleanupAge

\* an empty update purges one track and ages another
C16_EmptyUpdateAgesAndPurges ==
    /\ last.called
    /\ last.detections = <<>>
    /\ Purged /= {}
    /\ \E t \in Tracks(tracked_objects) : t.is_active /\ t.frames_lost > 0

\* after is before with x added at the end, less its oldest entry when
\* before was full
Appended(before, after, x) ==
    IF Len(before) = HistoryMaxLen
    THEN /\ Len(after) = HistoryMaxLen
         /\ after[HistoryMaxLen] = x
         /\ \A i \in 1..(HistoryMaxLen - 1) : after[i] = before[i + 1]
    ELSE /\ Len(after) = Len(before) + 1
         /\ after[Len(after)] = x
         /\ \A i \in 1..Len(before) : after[i] = before[i]

\* C17: the position, confidence and frame-number histories of a track hold
\* at most HistoryMaxLen entries each; a matched update appends to each of
\* them, and appending to a full history drops its oldest entry and keeps
\* the others in arrival order
C17_HistoriesBounded ==
    /\ \A t \in Tracks(tracked_objects) :
          /\ Len(t.positions) <= HistoryMaxLen
          /\ Len(t.confidences) <= HistoryMaxLen
          /\ Len(t.frame_history) <= HistoryMaxLen
    /\ last.called =>
          \A k \in 1..Len(last.associations) :
              LET before == GetTrack(last.pre, last.associations[k].track_id)
                  after == GetTrack(tracked_objects, last.associations[k].track_id)
                  detection == last.associations[k].detection
              IN  /\ Appended(before.positions, after.positions, detection.center)
                  /\ Appended(before.confidences, after.confidences,
                              detection.confidence)
                  /\ Appended(before.frame_history, after.frame_history,
                              last.frame_number)

\* a matched update finds the three histories full, the two oldest
\* positions being different
C17_FullHistoryAppended ==
    /\ last.called
    /\ \E k \in 1..Len(last.associations) :
          LET before == GetTrack(last.pre, last.associations[k].track_id)
          IN  /\ Len(before.positions) = HistoryMaxLen
              /\ Len(before.confidences) = HistoryMaxLen
              /\ Len(before.frame_history) = HistoryMaxLen
              /\ before.positions[1] /= before.positions[2]

\* C18: a track takes class_id and class_name from the detection that
\* creates it, and no later update changes them, whatever detection is
\* associated with the track
C18_ClassFixedAtCreation ==
    last.called =>
        /\ \A k \in 1..Len(last.created_ids) :
              LET t == GetTrack(tracked_objects, last.created_ids[k])
              IN  /\ t.class_id = last.unmatched_detections[k].class_id
                  /\ t.class_name = last.unmatched_detections[k].class_name
        /\ \A b \in Tracks(last.pre) :
              \A t \in Tracks(tracked_objects) :
                  t.track_id = b.track_id =>
                      /\ t.class_id = b.class_id
                      /\ t.class_name = b.class_name

\* a track is associated with a detection that carries another class name
C18_OtherClassNameAssociated ==
    /\ last.called
    /\ \E k \in 1..Len(last.associations) :
          /\ last.associations[k].detection.class_name
                /= GetTrack(last.pre, last.associations[k].track_id).class_name
          /\ GetTrack(tracked_objects, last.associations[k].track_id).confidence
                = last.associations[k].detection.confidence

\* the counter the orientation tag of line n selects for a move
TagDirection(old_center, new_center, n) ==
    IF counting_lines[n].direction = "vertical"
    THEN IF new_center[2] < old_center[2] THEN "north" ELSE "south"
    ELSE IF new_center[1] > old_center[1] THEN "east" ELSE "west"

\* the first counting line the move intersects
FirstCrossed(old_center, new_center) ==
    CHOOSE n \in 1..Len(counting_lines) :
        /\ CrossesLine(old_center, new_center, n)
        /\ \A i \in 1..(n - 1) : ~CrossesLine(old_center, new_center, i)

\* the associations of the last update that move a track which had not
\* crossed before across a counting line whose tag selects counter d
CountingMoves(d) ==
    { k \in 1..Len(last.associations) :
        LET before == GetTrack(last.pre, last.associations[k].track_id)
            center == last.associations[k].detection.center
        IN  /\ ~before.has_crossed_line
            /\ \E n \in 1..Len(counting_lines) : CrossesLine(before.center, center, n)
            /\ TagDirection(before.center, center,
                            FirstCrossed(before.center, center)) = d }

\* the associations that move a track from one center to another
MovesBetween(old_center, new_center) ==
    { k \in 1..Len(last.associations) :
        /\ GetTrack(last.pre, last.associations[k].track_id).center = old_center
        /\ ~GetTrack(last.pre, last.associations[k].track_id).has_crossed_line
        /\ last.associations[k].detection.center = new_center }

\* C19: every matched move of a track that has not crossed before and that
\* intersects a counting line adds exactly 1 to exactly one counter, the
\* one the line's orientation tag selects ('vertical': north if y
\* decreased, else south; 'horizontal': east if x increased, else west),
\* and nothing else changes a counter; a single move from (90, 100) to
\* (110, 100) adds 1 to east and leaves the other counters alone
C19_CounterByOrientationTag ==
    last.called =>
        /\ \A d \in {"north", "south", "east", "west"} :
              crossing_counts[d] = last.counts_pre[d] + Cardinality(CountingMoves(d))
        /\ (/\ MovesBetween(<<90, 100>>, <<110, 100>>) /= {}
            /\ Len(last.associations) = 1) =>
               /\ crossing_counts["east"] = last.counts_pre["east"] + 1
               /\ \A d \in {"north", "south", "west"} :
                     crossing_counts[d] = last.counts_pre[d]

\* a track that has not crossed before moves from (90, 100) to (110, 100)
C19_MovesEastAcrossLine ==
    /\ last.called
    /\ Len(last.associations) = 1
    /\ MovesBetween(<<90, 100>>, <<110, 100>>) /= {}
    /\ counting_lines[2].line = << <<100, 0>>, <<100, 200>> >>
    /\ counting_lines[2].direction = "horizontal"

\* every update so far brought one detection, and every position the
\* tracks remember is the center of the last detection
Steady ==
    /\ last.called
    /\ last.busy = last.calls
    /\ Len(last.detections) = 1
    /\ \A t \in Tracks(tracked_objects) :
          /\ t.class_id = last.detections[1].class_id
          /\ \A i \in 1..Len(t.positions) : t.positions[i] = last.detections[1].center

\* C20: on a tracker that starts empty, one detection of unchanged class
\* and center in every update creates one track in total and frames_lost is
\* 0 after every update; after the n-th update, for every n up to the
\* length of the histories and so for n = 15, frames_tracked is n
C20_SteadyDetectionOneTrack ==
    (Steady /\ last.calls <= HistoryMaxLen) =>
        /\ total_tracks_created = 1
        /\ Len(tracked_objects) = 1
        /\ tracked_objects[1].frames_lost = 0
        /\ tracked_objects[1].frames_tracked = last.calls

\* the fifteenth update of a steady run
C20_FifteenSteadyUpdates ==
    /\ Steady
    /\ last.calls = 15
    /\ frame_count = 15
    /\ tracked_objects[1].frames_tracked = 15

\* the last call was filter_detections and it returned a list
Filtered == call.op = "filter_detections" /\ ~call.raised

\* the point lies inside the polygon (no point lies inside an empty one)
Contains(polygon, point) ==
    polygon /= <<>> /\ _point_in_polygon(point, polygon)

\* the center of the k-th detection handed to the call lies inside at least
\* one active zone of the list
InActiveZone(zones, k) ==
    \E z \in 1..Len(zones) :
        zones[z].active /\ Contains(zones[z].polygon, call.detections[k].center)

\* the k-th detection handed to the call is in the list it returned
Kept(k) == \E i \in 1..Len(call.kept) : call.kept[i] = k

HasActive(zones) == \E z \in 1..Len(zones) : zones[z].active

C22_InclusionNeedsActiveZone ==
    Filtered =>
        \A k \in 1..Len(call.detections) :
            ~InActiveZone(call.exclusion_pre, k) =>
                (Kept(k) <=> (HasActive(call.inclusion_pre)
                                => InActiveZone(call.inclusion_pre, k)))

\* the zones of the list whose polygon has at least 3 points
WithPolygon(zones) ==
    SelectSeq(zones, LAMBDA zone : Len(zone.polygon) >= 3)

\* C23 as stated: with zones whose polygon has fewer than 3 points, also
\* none, filter_detections does not fail and keeps the detections it
\* would keep if those zones, inclusion or exclusion, were absent
C23_DegenerateZoneIgnored ==
    call.op = "filter_detections" =>
        /\ ~call.raised
        /\ call.kept = filter_detections(WithPolygon(call.inclusion_pre),
                                         WithPolygon(call.exclusion_pre),
                                         call.detections).kept

\* C24 as stated: filter_detections leaves the zone lists and every zone
\* as they were, leaves every detection handed to it with the fields and
\* values it had, and returns the kept detections in their input order
C24_FilterHasNoSideEffect ==
    Filtered =>
        /\ inclusion_zones = call.inclusion_pre
        /\ exclusion_zones = call.exclusion_pre
        /\ call.after = call.detections
        /\ \A i \in 1..Len(call.result) :
              call.result[i] = call.detections[call.kept[i]]
        /\ \A i, j \in 1..Len(call.kept) : i < j => call.kept[i] < call.kept[j]

\* the point lies on an edge of the polygon
OnBoundary(point, polygon) ==
    \E i \in 1..Len(polygon) :
        OnSegment(point, EdgeOf(polygon, i)[1], EdgeOf(polygon, i)[2])

\* the ray of the reference test starts 1 / RayScale above the point: the
\* boundary is at least 1 / (length of the longest edge) away from an
\* integer point that is not on it, so the start of the ray is on the same
\* side of the boundary as the point, and the ray meets no vertex
RayScale == 4 * (GridMax + 6)

\* the edge a b crosses the ray that leaves (x, y + 1 / RayScale) towards +x
CrossesRay(x, y, a, b) ==
    LET dy == b[2] - a[2]
        lhs == (x - a[1]) * RayScale * dy
        rhs == (y * RayScale + 1 - a[2] * RayScale) * (b[1] - a[1])
    IN  /\ (a[2] > y) /= (b[2] > y)
        /\ IF dy > 0 THEN lhs < rhs ELSE lhs > rhs

\* even-odd rule: the number of edges the ray crosses is odd
InsideByParity(point, polygon) ==
    Cardinality({ i \in 1..Len(polygon) :
                    CrossesRay(point[1], point[2],
                               EdgeOf(polygon, i)[1], EdgeOf(polygon, i)[2]) }) % 2 = 1

\* C25: for every simple polygon probed and every integer point around it
\* that is not on its boundary, _point_in_polygon says inside iff the
\* even-odd ray-casting test does; no horizontal edge toggles the answer
\* for any point
C25_AgreesWithRayCasting ==
    call.op = "_point_in_polygon" =>
        /\ \A point \in PointsAround(call.polygon) :
              ~OnBoundary(point, call.polygon) =>
                  (point \in call.inside <=> InsideByParity(point, call.polygon))
        /\ \A i \in 1..Len(call.polygon) :
              EdgeOf(call.polygon, i)[1][2] = EdgeOf(call.polygon, i)[2][2] =>
                  \A point \in PointsAround(call.polygon) :
                      ~Toggles(point[1], point[2],
                               EdgeOf(call.polygon, i)[1], EdgeOf(call.polygon, i)[2])

\* the U is probed: (1, 2) lies inside, level with the horizontal edge at
\* the bottom of the notch, and (3, 3) lies in the notch
C25_NotchedPolygonProbed ==
    /\ call.op = "_point_in_polygon"
    /\ call.polygon = UShape
    /\ <<1, 2>> \in call.inside
    /\ <<3, 3>> \notin call.inside
    /\ ~OnBoundary(<<1, 2>>, UShape)
    /\ ~OnBoundary(<<3, 3>>, UShape)

-----------------------------------------------------------------------------
(* MovementCoherenceFilter: the claims                                     *)

Moved == call.op = "update_detection_movement"

\* the lengths of the steps between the stored positions of the identifier
\* of the last call
StoredSteps ==
    LET h == detection_history[call.track_id]
    IN  [ i \in 1..(Len(h) - 1) |->
            CHOOSE r \in 0..(2 * 110) :
                r * r = (h[i + 1][1] - h[i][1]) * (h[i + 1][1] - h[i][1])
                      + (h[i + 1][2] - h[i][2]) * (h[i + 1][2] - h[i][2]) ]

\* the mean of the squared deviations from the mean exceeds limit
DeviationsExceed(steps, limit) ==
    LET n == Len(steps)
        total == Sum(steps)
        deviations == [ i \in 1..n |-> (n * steps[i] - total) * (n * steps[i] - total) ]
    IN  Sum(deviations) > limit * n * n * n

\* every position submitted for the identifier of the last call is the same
AlwaysSamePosition ==
    \A i \in 1..Len(call.submitted[call.track_id]) :
        call.submitted[call.track_id][i] = call.position

\* C26: update_detection_movement returns true when the identifier has
\* fewer than three stored positions after the call; with three or more it
\* returns false exactly when the variance of the step lengths exceeds
\* max_jitter squared or their mean is below min_movement; an identifier
\* always reported at the same position is accepted on its first two calls
\* and rejected from the third on
C26_CoherenceDecision ==
    Moved =>
        LET stored == Len(detection_history[call.track_id])
        IN  /\ stored < 3 => call.result
            /\ stored >= 3 =>
                  (~call.result <=>
                      \/ DeviationsExceed(StoredSteps, 50 * 50)
                      \/ Sum(StoredSteps) < 5 * Len(StoredSteps))
            /\ AlwaysSamePosition =>
                  (call.result <=> Len(call.submitted[call.track_id]) <= 2)

\* a call rejected for its jitter alone, on a full history
C26_RejectedForJitter ==
    /\ Moved
    /\ Len(detection_history[call.track_id]) = 10
    /\ ~call.result
    /\ DeviationsExceed(StoredSteps, 50 * 50)
    /\ Sum(StoredSteps) >= 5 * Len(StoredSteps)

\* the last count entries of a sequence
LastOf(sequence, count) ==
    SubSeq(sequence, Len(sequence) - count + 1, Len(sequence))

\* C27: after any sequence of update_detection_movement calls the history
\* of each identifier holds at most ten entries and equals the last
\* min(n, 10) positions submitted for it, in order
C27_HistoryIsLastTen ==
    Moved =>
        /\ DOMAIN detection_history = DOMAIN call.submitted
        /\ \A id \in DOMAIN detection_history :
              LET n == Len(call.submitted[id])
              IN  /\ Len(detection_history[id]) <= 10
                  /\ detection_history[id] =
                        LastOf(call.submitted[id], IF n < 10 THEN n ELSE 10)

\* an eleventh position submitted for an identifier has evicted its first
C27_EleventhEvictsFirst ==
    /\ Moved
    /\ 1 \in DOMAIN call.submitted
    /\ Len(call.submitted[1]) = 11
    /\ call.submitted[1][1] /= call.submitted[1][2]
    /\ Len(detection_history[1]) = 10

-----------------------------------------------------------------------------
(* ContextualValidator: the claims                                         *)

Validated == call.op = "validate_detection"

BoxWidth == call.detection.bbox[3] - call.detection.bbox[1]
BoxHeight == call.detection.bbox[4] - call.detection.bbox[2]

\* the rule by class, for a box of positive sides
PlausibleByClass ==
    CASE call.detection.class_name \in {"car", "truck", "bus"} ->
            /\ 100 * call.detection.center[2] >= 40 * call.frame_dimensions[2]
            /\ 8 * BoxHeight <= 10 * BoxWidth
            /\ BoxWidth <= 4 * BoxHeight
      [] call.detection.class_name = "person" ->
            /\ 12 * BoxWidth <= 10 * BoxHeight
            /\ BoxHeight <= 4 * BoxWidth
      [] OTHER -> TRUE

\* C28: validate_detection never fails, also for a box of zero height or
\* width, and for a box of positive sides it accepts a car, truck or bus
\* exactly when its center y is at least 40% of the frame height and its
\* width/height is within [0.8, 4.0], a person exactly when its
\* height/width is within [1.2, 4.0], and any other class always
C28_ValidationByClass ==
    Validated =>
        /\ ~call.raised
        /\ (BoxWidth > 0 /\ BoxHeight > 0) => (call.result <=> PlausibleByClass)
        /\ call.detection.class_name \notin {"car", "truck", "bus", "person"}
              => call.result

\* a bus of zero height low in the frame has been validated
C28_FlatVehicleValidated ==
    /\ Validated
    /\ call.detection.class_name = "bus"
    /\ BoxHeight = 0
    /\ BoxWidth > 0
    /\ call.detection.center[2] = 288
    /\ ~call.result

-----------------------------------------------------------------------------
(* get_tracking_statistics: the claims                                     *)

\* a step of get_tracking_statistics or of the caller on what it returned
StatisticsStep ==
    /\ call'.op = "get_tracking_statistics"
    /\ call' /= call

\* C29: get_tracking_statistics is a pure read: a call leaves the track
\* table, every field of every track, next_track_id, the totals and the
\* crossing counters as they were, and a change the caller makes to the
\* returned crossing_counts mapping does not change the tracker's counters
C29_StatisticsIsPureRead ==
    [][StatisticsStep =>
         /\ tracked_objects' = tracked_objects
         /\ next_track_id' = next_track_id
         /\ frame_count' = frame_count
         /\ total_tracks_created' = total_tracks_created
         /\ total_tracks_completed' = total_tracks_completed
         /\ crossing_counts' = crossing_counts]_vars

\* the caller has changed the mapping returned after a counted crossing
C29_ReturnedCountsEdited ==
    /\ call.op = "get_tracking_statistics"
    /\ call.edits = 1
    /\ call.stats.active_tracks = 1
    /\ Total(crossing_counts) = 1
    /\ Total(call.stats.crossing_counts) = 2

-----------------------------------------------------------------------------
(* The crossing counters over a run                                        *)

\* the tracks created so far whose has_crossed_line has been set
EverCrossed == { k \in 1..Len(hist) : hist[k].flag_sets >= 1 }

\* C30: the crossing counters are cumulative: no update decreases any of the
\* four, and their sum is the number of tracks created so far, in the table
\* or purged, whose has_crossed_line flag has been set
C30_CountersCumulative ==
    /\ \A d \in {"north", "south", "east", "west"} :
          crossing_counts[d] >= last.counts_pre[d]
    /\ Total(crossing_counts) = Cardinality(EverCrossed)

\* a second track has been counted after a counted track was purged
C30_CountedAfterPurge ==
    /\ Len(hist) = 2
    /\ ~hist[1].in_table
    /\ hist[1].flag_sets = 1
    /\ hist[2].flag_sets = 1
    /\ Total(crossing_counts) = 2

-----------------------------------------------------------------------------
(* The table after the cleanup                                             *)

\* C31: after every update with frame number f the table holds no inactive
\* track with f - last_seen_frame > 100, every inactive track with
\* f - last_seen_frame <= 100 that the cleanup found in the table is still
\* there, and no active track has been removed
C31_CleanupRemovesOnlyExpired ==
    last.called =>
        /\ \A t \in Tracks(tracked_objects) :
              t.is_active \/ frame_count - t.last_seen_frame <= 100
        /\ \A b \in Tracks(last.aged) :
              (b.is_active \/ frame_count - b.last_seen_frame <= 100)
                  => b \in Tracks(tracked_objects)
        /\ Tracks(tracked_objects) \subseteq Tracks(last.aged)

\* an inactive track last seen exactly 100 frames ago is still in the table
C31_InactiveKeptAtGrace ==
    /\ last.called
    /\ \E t \in Tracks(tracked_objects) :
          ~t.is_active /\ frame_count - t.last_seen_frame = 100

-----------------------------------------------------------------------------
(* The greedy assignment                                                   *)

\* the active tracks the last update found, in table order
ActiveBefore == SelectSeq(last.pre, LAMBDA t : t.is_active)

\* the row of track tid among them
RowOf(tid) == CHOOSE i \in 1..Len(ActiveBefore) : ActiveBefore[i].track_id = tid

\* the squared distance of the i-th active track and the j-th detection
PairCost(i, j) ==
    (ActiveBefore[i].center[1] - last.detections[j].center[1])
        * (ActiveBefore[i].center[1] - last.detections[j].center[1])
    + (ActiveBefore[i].center[2] - last.detections[j].center[2])
        * (ActiveBefore[i].center[2] - last.detections[j].center[2])

\* same class and within max_distance
Eligible(i, j) ==
    /\ ActiveBefore[i].class_id = last.detections[j].class_id
    /\ PairCost(i, j) <= 100 * 100

\* neither the track nor the detection is in the first k - 1 commits
FreeAt(k, i, j) ==
    \A m \in 1..(k - 1) :
        /\ last.associations[m].track_id /= ActiveBefore[i].track_id
        /\ last.associations[m].det_idx /= j

\* the pairs the k-th commit could choose from
Candidates(k) ==
    { c \in (1..Len(ActiveBefore)) \X (1..Len(last.detections)) :
        FreeAt(k, c[1], c[2]) /\ Eligible(c[1], c[2]) }

\* C32: each pair committed by the greedy assignment has the least cost
\* among the eligible pairs of a track and a detection not yet assigned at
\* that step, and among several pairs of that least cost it is the first in
\* scan order: the earliest created track, then the earliest detection of
\* the list
C32_CommitsFirstMinimum ==
    last.called =>
        \A k \in 1..Len(last.associations) :
            LET i == RowOf(last.associations[k].track_id)
                j == last.associations[k].det_idx
            IN  /\ <<i, j>> \in Candidates(k)
                /\ last.associations[k].detection = last.detections[j]
                /\ \A c \in Candidates(k) :
                      \/ PairCost(i, j) < PairCost(c[1], c[2])
                      \/ /\ PairCost(i, j) = PairCost(c[1], c[2])
                         /\ i < c[1] \/ (i = c[1] /\ j <= c[2])

\* a commit has chosen between two tracks at the same cost, and another
\* between two detections at the same cost
C32_TiesOnBothSides ==
    /\ last.called
    /\ Len(last.associations) = 2
    /\ \E c \in Candidates(1) :
          /\ c[1] /= RowOf(last.associations[1].track_id)
          /\ PairCost(c[1], c[2]) = PairCost(RowOf(last.associations[1].track_id),
                                             last.associations[1].det_idx)
    /\ \E c \in Candidates(1) :
          /\ c[1] = RowOf(last.associations[1].track_id)
          /\ c[2] /= last.associations[1].det_idx
          /\ PairCost(c[1], c[2]) = PairCost(c[1], last.associations[1].det_idx)

-----------------------------------------------------------------------------
(* The states of a track                                                   *)

\* C33: after every update every active track of the table has
\* 0 <= frames_lost < max_frames_lost and no exit point, and every inactive
\* track of the table has frames_lost = max_frames_lost and an exit point
C33_FramesLostByState ==
    \A t \in Tracks(tracked_objects) :
        IF t.is_active
        THEN /\ 0 <= t.frames_lost
             /\ t.frames_lost < 10
             /\ t.exit_point = "None"
        ELSE /\ t.frames_lost = 10
             /\ t.exit_point \in {"north", "south", "east", "west"}

\* an inactive track has been through one more update, beside a new track
C33_InactiveBesideNewTrack ==
    \E t, u \in Tracks(tracked_objects) :
        /\ ~t.is_active
        /\ u.is_active
        /\ u.first_seen_frame = frame_count
        /\ EntryOf(t).inactive_frame < frame_count

\* no active track of the table the update found could take detection d
NoActiveTrackFor(d) ==
    \A a \in Tracks(last.pre) :
        a.is_active =>
            \/ a.class_id /= d.class_id
            \/ (a.center[1] - d.center[1]) * (a.center[1] - d.center[1])
                 + (a.center[2] - d.center[2]) * (a.center[2] - d.center[2])
                   > 100 * 100

\* a track created by the last update from detection d, under an
\* identifier no track has had before
CreatedFrom(d) ==
    \E t \in Tracks(tracked_objects) :
        /\ t.track_id \notin { hist[k].track_id : k \in 1..last.created_pre }
        /\ t.class_id = d.class_id
        /\ t.center = d.center
        /\ t.is_active
        /\ t.frames_tracked = 1
        /\ t.first_seen_frame = frame_count

-----------------------------------------------------------------------------
(* Every detection is accounted for                                        *)

\* the list positions of the detections the last update associated
AssociatedPositions ==
    { last.associations[k].det_idx : k \in 1..Len(last.associations) }

\* the positions of the other detections, in list order
RECURSIVE OtherPositions(_)
OtherPositions(j) ==
    IF j > Len(last.detections) THEN <<>>
    ELSE IF j \in AssociatedPositions THEN OtherPositions(j + 1)
    ELSE <<j>> \o OtherPositions(j + 1)

\* the tracks of the table that the update did not find there
NewTracks ==
    SelectSeq(tracked_objects,
              LAMBDA t : \A b \in Tracks(last.pre) : b.track_id /= t.track_id)

\* track t is as a creation from detection d leaves it
FreshFrom(t, d) ==
    /\ t.class_id = d.class_id
    /\ t.bbox = d.bbox
    /\ t.center = d.center
    /\ t.confidence = d.confidence
    /\ t.frames_tracked = 1
    /\ t.frames_lost = 0
    /\ t.positions = << d.center >>
    /\ Len(t.confidences) = 1
    /\ Len(t.frame_history) = 1
    /\ t.is_active

\* C35: in every update each supplied detection is either associated with
\* exactly one active track of the table or gives rise to exactly one new
\* track (frames_tracked = 1, one history sample, frames_lost = 0), never
\* both and never neither, so that the associations and the tracks created
\* add up to the detections supplied, also with value-equal detections
C35_DetectionsAccountedOnce ==
    last.called =>
        /\ Cardinality(AssociatedPositions) = Len(last.associations)
        /\ \A k \in 1..Len(last.associations) :
              /\ last.associations[k].det_idx \in 1..Len(last.detections)
              /\ last.associations[k].detection
                    = last.detections[last.associations[k].det_idx]
              /\ \E b \in Tracks(last.pre) :
                    b.is_active /\ b.track_id = last.associations[k].track_id
              /\ \A m \in 1..Len(last.associations) :
                    m /= k => last.associations[m].track_id
                                /= last.associations[k].track_id
        /\ Len(NewTracks) = Len(OtherPositions(1))
        /\ \A k \in 1..Len(NewTracks) :
              FreshFrom(NewTracks[k], last.detections[OtherPositions(1)[k]])
        /\ Len(last.associations) + (total_tracks_created - last.created_pre)
              = Len(last.detections)
        /\ total_tracks_created - last.created_pre = Len(NewTracks)

\* of two value-equal detections one was associated and the other has
\* created a track
C35_EqualDetectionsSplit ==
    /\ last.called
    /\ Len(last.detections) = 2
    /\ last.detections[1] = last.detections[2]
    /\ Len(last.associations) = 1
    /\ Len(NewTracks) = 1

-----------------------------------------------------------------------------
(* _line_intersection                                                      *)

Probed == call.op = "_line_intersection"

\* twice the signed area of the triangle a, b, c
Area2(a, b, c) ==
    (b[1] - a[1]) * (c[2] - a[2]) - (b[2] - a[2]) * (c[1] - a[1])

NoThreeCollinear ==
    /\ Area2(call.p1, call.p2, call.p3) /= 0
    /\ Area2(call.p1, call.p2, call.p4) /= 0
    /\ Area2(call.p1, call.p3, call.p4) /= 0
    /\ Area2(call.p2, call.p3, call.p4) /= 0

\* numerator / denominator lies strictly between 0 and 1
StrictlyInside(numerator, denominator) ==
    \/ 0 < numerator /\ numerator < denominator
    \/ denominator < numerator /\ numerator < 0

\* the segments p1 p2 and p3 p4 meet in one point interior to both:
\* p1 + s (p2 - p1) = p3 + t (p4 - p3) with 0 < s < 1 and 0 < t < 1
ProperlyCross ==
    LET dx == call.p2[1] - call.p1[1]
        dy == call.p2[2] - call.p1[2]
        ex == call.p4[1] - call.p3[1]
        ey == call.p4[2] - call.p3[2]
        wx == call.p3[1] - call.p1[1]
        wy == call.p3[2] - call.p1[2]
        denominator == dx * ey - dy * ex
    IN  /\ denominator /= 0
        /\ StrictlyInside(wx * ey - wy * ex, denominator)
        /\ StrictlyInside(wx * dy - wy * dx, denominator)

\* both ends of the move are strictly on one side of the line through
\* p3 and p4
StrictlySameSide ==
    Area2(call.p3, call.p4, call.p1) * Area2(call.p3, call.p4, call.p2) > 0

\* C36: for integer points of a bounded grid with no three of the four end
\* points collinear, _line_intersection(p1, p2, p3, p4) is true exactly
\* when the segments p1 p2 and p3 p4 properly cross; a move with both
\* centers strictly on one side of a counting line, or of zero length,
\* registers no crossing of that line
C36_ProperCrossing ==
    Probed =>
        /\ NoThreeCollinear => (call.result <=> ProperlyCross)
        /\ (StrictlySameSide \/ call.p1 = call.p2) =>
              /\ ~call.result
              /\ ~call.has_crossed_line
              /\ call.crossing_counts = crossing_counts

\* a move that passes the line through p3 and p4 beyond the end of the
\* segment
C36_PassesBesideSegment ==
    /\ Probed
    /\ NoThreeCollinear
    /\ ~StrictlySameSide
    /\ ~ProperlyCross
    /\ ~call.result

-----------------------------------------------------------------------------
(* update_detection_movement under interleaving                            *)

Stepped == call.op = "movement_steps"

\* the lengths of the steps between the positions of history h, which lie
\* on one horizontal line
StepsOf(h) ==
    [ i \in 1..(Len(h) - 1) |->
        IF h[i + 1][1] >= h[i][1] THEN h[i + 1][1] - h[i][1]
        ELSE h[i][1] - h[i + 1][1] ]

\* the verdict on history h
VerdictOn(h) ==
    \/ Len(h) < 3
    \/ /\ ~DeviationsExceed(StepsOf(h), 50 * 50)
       /\ Sum(StepsOf(h)) >= 5 * Len(StepsOf(h))

\* what the identifier's own submissions make its history
OwnHistory(id) ==
    LET n == Len(call.submitted[id])
    IN  LastOf(call.submitted[id], IF n < 10 THEN n ELSE 10)

\* whenever no call for an identifier is under way, its history and its
\* last verdict are those of its own submissions
SettledByOwnCalls ==
    Stepped =>
        \A id \in MovementIds :
            (call.callers[id].pc = "idle" /\ call.callers[id].calls > 0) =>
                /\ id \in DOMAIN detection_history
                /\ detection_history[id] = OwnHistory(id)
                /\ call.callers[id].verdict = VerdictOn(OwnHistory(id))

\* a step of the caller of one identifier leaves the history and the
\* verdict of every other identifier as they were
OthersUntouched ==
    \A id \in MovementIds :
        (call'.op = "movement_steps" /\ call'.callers[id] = Callers[id]) =>
            /\ (id \in DOMAIN detection_history) = (id \in DOMAIN detection_history')
            /\ id \in DOMAIN detection_history =>
                  detection_history'[id] = detection_history[id]

\* C37: with the calls of one identifier serialized and the calls of
\* different identifiers interleaved between any two of their steps, the
\* history of every identifier ends up as the last min(n, 10) positions
\* submitted for it, in order, and a call for one identifier changes
\* neither the history nor the verdict of another
C37_IsolatedPerIdentifier ==
    /\ []SettledByOwnCalls
    /\ [][OthersUntouched]_vars

\* identifier 1 has evicted its first position while a call of identifier
\* 2, which has evicted too, is between its append and its eviction
C37_EvictionsInterleaved ==
    /\ Stepped
    /\ call.callers[1].pc = "idle"
    /\ call.callers[1].calls = 11
    /\ call.callers[1].verdict
    /\ call.callers[2].pc = "evict"
    /\ call.callers[2].calls = 11
    /\ ~call.callers[2].verdict

-----------------------------------------------------------------------------
(* completed_tracks over a run                                             *)

\* C38: between any two updates the completed_tracks value returned by
\* get_tracking_statistics is the cumulative total_tracks_completed
C38_CompletedMatchesTotal ==
    get_tracking_statistics.completed_tracks = total_tracks_completed

-----------------------------------------------------------------------------
(* The histories of a track                                                *)

\* the frame indices of a history are strictly increasing
Increasing(frames) == \A i \in 1..(Len(frames) - 1) : frames[i] < frames[i + 1]

\* C39: after every update every track in the table has three histories
\* of one length, min(frames_tracked, 30), the last stored center is its
\* center, the last stored frame index is last_seen_frame,
\* first_seen_frame <= last_seen_frame, and, when the frame numbers of the
\* calls so far were strictly increasing, its frame indices are strictly
\* increasing
C39_HistoriesConsistent ==
    \A i \in 1..Len(tracked_objects) :
        LET track == tracked_objects[i]
        IN  /\ Len(track.positions) = IF track.frames_tracked < HistoryMaxLen
                                     THEN track.frames_tracked
                                     ELSE HistoryMaxLen
            /\ Len(track.confidences) = Len(track.positions)
            /\ Len(track.frame_history) = Len(track.positions)
            /\ track.positions[Len(track.positions)] = track.center
            /\ track.frame_history[Len(track.frame_history)] = track.last_seen_frame
            /\ track.first_seen_frame <= track.last_seen_frame
            /\ last.ordered => Increasing(track.frame_history)

-----------------------------------------------------------------------------
(* Maximality of the greedy assignment                                     *)

\* the columns of the detections the last update left unmatched
FreeColumns ==
    { j \in 1..Len(last.detections) :
        \A m \in 1..Len(last.associations) : last.associations[m].det_idx /= j }

\* the rows of the active tracks the last update left unmatched
FreeRows ==
    { i \in 1..Len(ActiveBefore) :
        \A m \in 1..Len(last.associations) :
            last.associations[m].track_id /= ActiveBefore[i].track_id }

\* same class and a distance below max_distance
Associable(i, j) ==
    /\ ActiveBefore[i].class_id = last.detections[j].class_id
    /\ PairCost(i, j) < 100 * 100

\* C40: after the association of any update no active track left
\* unmatched and detection left unmatched have the same class and a
\* distance below max_distance: the tracks that age are the free rows, the
\* detections that become new tracks are the free columns, and no free row
\* is associable with a free column
C40_GreedyIsMaximal ==
    last.called =>
        /\ \A i \in FreeRows, j \in FreeColumns : ~Associable(i, j)
        /\ { last.unmatched_tracks[k] : k \in 1..Len(last.unmatched_tracks) }
              = { ActiveBefore[i].track_id : i \in FreeRows }
        /\ Len(last.unmatched_detections) = Cardinality(FreeColumns)
        /\ \A k \in 1..Len(last.unmatched_detections) :
              \E j \in FreeColumns : last.detections[j] = last.unmatched_detections[k]
        /\ Len(last.created_ids) = Cardinality(FreeColumns)

\* a person track and a person detection exactly max_distance apart were
\* both left unmatched: the track aged and a new track was created
C40_LeftoverAtMaxDistance ==
    /\ last.called
    /\ \E i \in FreeRows, j \in FreeColumns :
          /\ ActiveBefore[i].class_id = last.detections[j].class_id
          /\ PairCost(i, j) = 100 * 100
    /\ Len(last.created_ids) = 1
    /\ \E t \in Tracks(tracked_objects) : t.is_active /\ t.frames_lost = 1


=============================================================================
